---- MODULE Spec2Model ----
(***************************************************************************)
(* Device topology and snapshot/restore of the device manager:             *)
(*   src/src/vmm/src/device_manager/{mod,persist,pci_mngr,acpi}.rs         *)
(*   src/src/vmm/src/devices/acpi/vmgenid.rs                               *)
(*                                                                         *)
(* One behaviour is one life of a microVM: devices are attached at boot    *)
(* (MMIO or PCI transport), the guest activates some of them, the device   *)
(* manager is saved into a DevicesState, and the DevicesState is restored  *)
(* into a fresh Vm / VmResources / EventManager.                           *)
(***************************************************************************)
EXTENDS Integers, Sequences, FiniteSets, TLC

\* Number of attach_virtio_device calls explored per boot.
MaxDevices == 2

\* Ordinal of the fallible call that an injected fault may hit (1..MaxFailIdx).
MaxFailIdx == 2

---------------------------------------------------------------------------
\* Option<T>: None is the empty sequence, Some(x) the one-element sequence.
None == << >>
Some(x) == << x >>
IsSome(o) == Len(o) = 1
IsNone(o) == Len(o) = 0

\* Virtio device type tags (the value of VirtioDevice::device_type()).
TYPE_BALLOON == "balloon"
TYPE_BLOCK == "block"
TYPE_NET == "net"
TYPE_VSOCK == "vsock"
TYPE_RNG == "rng"

DeviceTypes == {TYPE_BALLOON, TYPE_BLOCK, TYPE_NET, TYPE_VSOCK, TYPE_RNG}

\* Identifiers the embedding VMM gives to devices: block and net devices are
\* multi-instance, balloon/vsock/entropy are single-instance (VmResources
\* holds at most one of each), so they always come with the same id.  Two
\* network interfaces and the two flavours of block device under one drive
\* id are explored.
DeviceIds(type) ==
    IF type = TYPE_NET THEN {"a", "b"}
    ELSE IF type = TYPE_BLOCK THEN {"a"} ELSE {type}

\* The shared Mmds of the booting VMM, configured as the persistence tests do
\* (insert_net_device_with_mmds(.., MmdsVersion::V2)), and the one
\* VmResources::mmds_or_default creates.
BootMmds == [version |-> "V2", imds_compat |-> TRUE]
DefaultMmds == [version |-> "V1", imds_compat |-> FALSE]

\* VirtioDevice::queues().len() of each concrete device.
NumQueues(type) ==
    CASE type = TYPE_BALLOON -> 3
      [] type = TYPE_BLOCK -> 1
      [] type = TYPE_NET -> 2
      [] type = TYPE_VSOCK -> 3
      [] OTHER -> 1

\* A freshly constructed virtio device object.
\*   vhost     Block::is_vhost_user()
\*   mmds_ns   Net::mmds_ns.is_some()
\*   activated VirtioDevice::is_activated()
\*   ops       the calls the device received from save, in order
\*   acts      number of VirtioDevice::activate() calls received
NewDevice(type, id, vhost, mmds_ns) ==
    [type |-> type, id |-> id, vhost |-> vhost, mmds_ns |-> mmds_ns,
     activated |-> FALSE, ops |-> << >>, acts |-> 0]

\* The devices a caller may hand to attach_virtio_device.
AttachableDevices ==
    { NewDevice(x[1], x[2], x[3], x[4]) :
        x \in { y \in DeviceTypes \X ({"a", "b"} \cup DeviceTypes)
                        \X BOOLEAN \X BOOLEAN :
                    /\ y[2] \in DeviceIds(y[1])
                    /\ y[3] => y[1] = TYPE_BLOCK
                    /\ y[4] => y[1] = TYPE_NET } }

Key(d) == << d.type, d.id >>

\* ResourceAllocator of a Vm: every pool hands out the next free value.
NewAllocator ==
    [gsi_legacy |-> 0, mmio32 |-> 0, sysmem |-> 0, bdf |-> 0, bar64 |-> 0,
     gsi_msi |-> 0]

\* Set of all permutations (as sequences) of a finite set.
RECURSIVE Perms(_)
Perms(S) ==
    IF S = {} THEN { << >> }
    ELSE UNION { { << x >> \o p : p \in Perms(S \ {x}) } : x \in S }

\* Number of elements of sequence s satisfying ev = e.
RECURSIVE Count(_, _)
Count(s, e) ==
    IF s = << >> THEN 0
    ELSE (IF Head(s) = e THEN 1 ELSE 0) + Count(Tail(s), e)

---------------------------------------------------------------------------
VARIABLES
    phase,         \* "boot" | "panic" | "saved" | "restored"
    alloc,         \* vm.resource_allocator() of the booting Vm
    mmio_bus,      \* vm.common.mmio_bus: set of [class, addr, type, id]
    pci_bus,       \* pci_segment.pci_bus: set of [dev, type, id]
    pci_segment,   \* PciDevices::pci_segment.is_some()
    mmio_devices,  \* MMIODeviceManager::virtio_devices
    pci_devices,   \* PciDevices::virtio_devices
    acpi_devices,  \* ACPIDeviceManager
    mmds,          \* VmResources::mmds of the booting VMM (the shared Mmds)
    snap,          \* Option<DevicesState>: the snapshot document
    save_obs,      \* what save did beside building the snapshot
    rst,           \* outcome of the last DeviceManager::restore
    call,          \* the call just made to enable_pci, get_virtio_device or
                   \* with_virtio_device_with_id, and what it returned
    i8042,         \* the I8042Device (devices/legacy/i8042.rs)
    io             \* the call just made to the I8042Device, and its effects

vars == << phase, alloc, mmio_bus, pci_bus, pci_segment, mmio_devices,
           pci_devices, acpi_devices, mmds, snap, save_obs, rst, call,
           i8042, io >>

EmptyRegistry == [k \in {} |-> 0]

NoSaveObs ==
    [mmio_mmds_writes |-> << >>, pci_mmds_writes |-> << >>, warnings |-> 0,
     errors |-> 0, completed |-> FALSE]

NoRestore == [status |-> "none"]

\* A call and its result:
\*   op      the function called ("" when the last operation returns nothing
\*           that is observed)
\*   type, id, kind  its arguments (kind: the concrete type T asked for)
\*   f_ok    the result the caller's closure gives if it runs
\*   status  "ok", "panic" or the FindDeviceError variant
\*   found   Option<[from, device]>: the handle returned and the registry
\*           that held it
\*   ran     number of times the caller's closure was run
\*   log     the calls into the host the function made, in order
NoCall ==
    [op |-> "", type |-> "", id |-> "", kind |-> "", f_ok |-> TRUE,
     status |-> "", found |-> None, ran |-> 0, log |-> << >>]

---------------------------------------------------------------------------
\* The i8042 PS/2 controller (devices/legacy/i8042.rs).

Byte == 0..255

\* Offsets of the status port (0x64) and of the data port (0x60).
OFS_STATUS == 4
OFS_DATA == 0

\* Commands the guest driver writes to port 0x64:
\* 0x20, 0x60, 0xD0, 0xD1, 0xFE.
CMD_READ_CTR == 32
CMD_WRITE_CTR == 96
CMD_READ_OUTP == 208
CMD_WRITE_OUTP == 209
CMD_RESET_CPU == 254

\* Bits of the status register: 0x01, 0x08, 0x10.
SB_OUT_DATA_AVAIL == 1
SB_I8042_CMD_DATA == 8
SB_KBD_ENABLED == 16

\* Bits of the control register: 0x01, 0x04.
CB_KBD_INT == 1
CB_POST_OK == 4

\* Key scan codes: 0x0014, 0x0011, 0xE071.
KEY_CTRL == 20
KEY_ALT == 17
KEY_DEL == 57457

\* The byte the keyboard acknowledges a command with: 0xFA.
KBD_ACK == 250

\* Size of the internal buffer, in bytes.
BUF_SIZE == 16

\* x & bit # 0, x | bit and x & !bit for a byte x and a single bit.
HasBit(x, bit) == (x \div bit) % 2 = 1
SetBit(x, bit) == IF HasBit(x, bit) THEN x ELSE x + bit
ClearBit(x, bit) == IF HasBit(x, bit) THEN x - bit ELSE x

\* I8042Device::new; the two EventFds are seen through the writes made to
\* them, which the callers record.
I8042Device_new ==
    [ status  |-> SB_KBD_ENABLED,
      control |-> SetBit(CB_POST_OK, CB_KBD_INT),
      outp    |-> 0,
      cmd     |-> 0,
      buf     |-> [i \in 0..(BUF_SIZE - 1) |-> 0],
      bhead   |-> 0,
      btail   |-> 0 ]

\* What a call of the device did beside changing the device:
\*   op, offset, key   the call and its arguments
\*   data              the caller's buffer after the call
\*   res               "Ok" or the I8042Error returned; "panic" for an unwrap
\*                     of an Err
\*   irqs, resets      successful writes to kbd_interrupt_evt and reset_evt
\*   evt_writes        writes to kbd_interrupt_evt that were tried
\*   missed_read_count .. error_count   increments of METRICS
NoIo ==
    [ op |-> "", offset |-> 0, key |-> 0, data |-> << >>, res |-> "Ok",
      irqs |-> 0, resets |-> 0, evt_writes |-> 0,
      missed_read_count |-> 0, missed_write_count |-> 0, read_count |-> 0,
      write_count |-> 0, reset_count |-> 0, error_count |-> 0 ]

\* A device d together with the effects e of the call under way.
Dev(d, e) == [d |-> d, e |-> e]

\* buf_len: (btail - bhead).0; the counters are Wrapping<usize> and tail is
\* never behind head.
buf_len(d) == d.btail - d.bhead

\* Mutant of push_byte: a full buffer takes the byte over its oldest one.
push_byte_on_full_buffer(m, byte) == Dev([m.d EXCEPT !.status = SetBit(@, SB_OUT_DATA_AVAIL), !.buf[m.d.btail % BUF_SIZE] = byte, !.btail = @ + 1], [m.e EXCEPT !.res = "Ok"])

\* push_byte.
push_byte(m, byte) ==
    LET d == [m.d EXCEPT !.status = SetBit(@, SB_OUT_DATA_AVAIL)] IN
    IF buf_len(d) = BUF_SIZE
    THEN Dev(d, [m.e EXCEPT !.res = "InternalBufferFull"])
    ELSE Dev([d EXCEPT !.buf[d.btail % BUF_SIZE] = byte, !.btail = @ + 1],
             [m.e EXCEPT !.res = "Ok"])

\* Mutant of pop_byte: the output-data bit stays set after the last byte.
pop_byte_keeping_data_bit(m) == IF buf_len(m.d) = 0 THEN Dev(m.d, [m.e EXCEPT !.data = << >>]) ELSE Dev([m.d EXCEPT !.bhead = @ + 1], [m.e EXCEPT !.data = << m.d.buf[m.d.bhead % BUF_SIZE] >>])

\* pop_byte: the byte comes back in e.data as << byte >>, None as << >>.
pop_byte(m) ==
    IF buf_len(m.d) = 0
    THEN Dev(m.d, [m.e EXCEPT !.data = << >>])
    ELSE LET d == [m.d EXCEPT !.bhead = @ + 1] IN
         Dev(IF buf_len(d) = 0
             THEN [d EXCEPT !.status = ClearBit(@, SB_OUT_DATA_AVAIL)]
             ELSE d,
             [m.e EXCEPT !.data = << m.d.buf[m.d.bhead % BUF_SIZE] >>])

\* Mutant of flush_buf: the flush also drops the awaited payload.
flush_buf_dropping_awaited_payload(d) == [d EXCEPT !.bhead = 0, !.btail = 0, !.status = ClearBit(ClearBit(@, SB_OUT_DATA_AVAIL), SB_I8042_CMD_DATA)]

\* Mutant of flush_buf: the buffer keeps its bytes.
flush_buf_keeping_bytes(d) == d

\* flush_buf.
flush_buf(d) ==
    [d EXCEPT !.bhead = 0, !.btail = 0,
              !.status = ClearBit(@, SB_OUT_DATA_AVAIL)]

\* trigger_kbd_interrupt; fail is the number of the write to
\* kbd_interrupt_evt that fails in this call (0: none does).
trigger_kbd_interrupt(m, fail) ==
    IF ~HasBit(m.d.control, CB_KBD_INT)
    THEN Dev(m.d, [m.e EXCEPT !.res = "KbdInterruptDisabled"])
    ELSE IF m.e.evt_writes + 1 = fail
         THEN Dev(m.d, [m.e EXCEPT !.res = "KbdInterruptFailure",
                                   !.evt_writes = @ + 1])
         ELSE Dev(m.d, [m.e EXCEPT !.res = "Ok", !.evt_writes = @ + 1,
                                   !.irqs = @ + 1])

\* x.unwrap() of the result of the step just made.
I8042Unwrap(m) ==
    IF m.e.res = "Ok" THEN m ELSE Dev(m.d, [m.e EXCEPT !.res = "panic"])

\* trigger_key.
trigger_key(m, key, fail) ==
    LET extended == key \div 256 # 0
        m1 == IF extended THEN push_byte(m, key \div 256) ELSE m
        m2 == push_byte(m1, key % 256)
        m3 == trigger_kbd_interrupt(m2, fail)
    IN IF extended /\ BUF_SIZE - buf_len(m.d) < 2
       THEN Dev(m.d, [m.e EXCEPT !.res = "InternalBufferFull"])
       ELSE IF extended /\ m1.e.res # "Ok" THEN m1
       ELSE IF m2.e.res # "Ok" THEN m2
       ELSE IF m3.e.res \in { "Ok", "KbdInterruptDisabled" }
            THEN Dev(m3.d, [m3.e EXCEPT !.res = "Ok"])
            ELSE m3

\* Mutant of trigger_ctrl_alt_del: the room is not looked at first.
trigger_ctrl_alt_del_without_room_check(m, fail) == LET m1 == trigger_key(m, KEY_CTRL, fail) m2 == trigger_key(m1, KEY_ALT, fail) m3 == trigger_key(m2, KEY_DEL, fail) IN IF m1.e.res # "Ok" THEN m1 ELSE IF m2.e.res # "Ok" THEN m2 ELSE m3

\* trigger_ctrl_alt_del.
trigger_ctrl_alt_del(m, fail) ==
    LET m1 == trigger_key(m, KEY_CTRL, fail)
        m2 == trigger_key(m1, KEY_ALT, fail)
        m3 == trigger_key(m2, KEY_DEL, fail)
    IN IF BUF_SIZE - buf_len(m.d) < 4
       THEN Dev(m.d, [m.e EXCEPT !.res = "InternalBufferFull"])
       ELSE IF m1.e.res # "Ok" THEN m1
       ELSE IF m2.e.res # "Ok" THEN m2
       ELSE m3

\* The warn! arm of `if let Err(KbdInterruptFailure(err)) = ..`: the result
\* of the interrupt is dropped.
I8042Ignore(m) == Dev(m.d, [m.e EXCEPT !.res = "Ok"])

\* Mutant of bus_read: the status register goes to the first byte of a
\* buffer of any length.
bus_read_without_length_check(d, offset, data, fail) == IF offset = OFS_STATUS /\ data # << >> THEN Dev(d, [NoIo EXCEPT !.op = "bus_read", !.offset = offset, !.data = << d.status >> \o Tail(data), !.read_count = Len(data)]) ELSE Dev(d, [NoIo EXCEPT !.op = "bus_read", !.offset = offset, !.data = data, !.missed_read_count = 1])

\* bus_read; data is the caller's buffer.
bus_read(d, offset, data, fail) ==
    LET m == Dev(d, [NoIo EXCEPT !.op = "bus_read", !.offset = offset,
                                 !.data = data])
    IN IF Len(data) # 1
       THEN Dev(d, [m.e EXCEPT !.missed_read_count = 1])
       ELSE IF offset = OFS_STATUS
       THEN Dev(d, [m.e EXCEPT !.data = << d.status >>,
                               !.read_count = Len(data)])
       ELSE IF offset = OFS_DATA
       THEN LET p == pop_byte(m)
                q == Dev(p.d, [p.e EXCEPT
                                 !.data = IF @ = << >> THEN << 0 >> ELSE @])
                r == IF HasBit(q.d.status, SB_OUT_DATA_AVAIL)
                     THEN I8042Ignore(trigger_kbd_interrupt(q, fail))
                     ELSE q
            IN Dev(r.d, [r.e EXCEPT !.read_count = Len(data)])
       ELSE Dev(d, [m.e EXCEPT !.missed_read_count = 1])

\* bus_write; reset_ok says whether the write to reset_evt succeeds.
bus_write(d, offset, data, fail, reset_ok) ==
    LET m == Dev(d, [NoIo EXCEPT !.op = "bus_write", !.offset = offset,
                                 !.data = data])
        Written(r) == Dev(r.d, [r.e EXCEPT !.write_count = 1])
    IN IF Len(data) # 1
       THEN Dev(d, [m.e EXCEPT !.missed_write_count = 1])
       ELSE IF offset = OFS_STATUS /\ data[1] = CMD_RESET_CPU
       THEN Written(Dev(d, IF reset_ok
                           THEN [m.e EXCEPT !.resets = 1, !.reset_count = 1]
                           ELSE [m.e EXCEPT !.error_count = 1,
                                            !.reset_count = 1]))
       ELSE IF offset = OFS_STATUS /\ data[1] = CMD_READ_CTR
       THEN Written(I8042Unwrap(push_byte(Dev(flush_buf(d), m.e), d.control)))
       ELSE IF offset = OFS_STATUS /\ data[1] = CMD_WRITE_CTR
       THEN Written(Dev([flush_buf(d) EXCEPT
                           !.status = SetBit(@, SB_I8042_CMD_DATA),
                           !.cmd = data[1]], m.e))
       ELSE IF offset = OFS_STATUS /\ data[1] = CMD_READ_OUTP
       THEN Written(I8042Unwrap(push_byte(Dev(flush_buf(d), m.e), d.outp)))
       ELSE IF offset = OFS_STATUS /\ data[1] = CMD_WRITE_OUTP
       THEN Written(Dev([d EXCEPT !.status = SetBit(@, SB_I8042_CMD_DATA),
                                  !.cmd = data[1]], m.e))
       ELSE IF offset = OFS_DATA /\ HasBit(d.status, SB_I8042_CMD_DATA)
       THEN Written(Dev([(CASE d.cmd = CMD_WRITE_CTR ->
                                 [d EXCEPT !.control = data[1]]
                            [] d.cmd = CMD_WRITE_OUTP ->
                                 [d EXCEPT !.outp = data[1]]
                            [] OTHER -> d)
                         EXCEPT !.status = ClearBit(@, SB_I8042_CMD_DATA)],
                        m.e))
       ELSE IF offset = OFS_DATA
       THEN LET p == I8042Unwrap(push_byte(Dev(flush_buf(d), m.e), KBD_ACK))
            IN Written(IF p.e.res = "panic" THEN p
                       ELSE I8042Ignore(trigger_kbd_interrupt(p, fail)))
       ELSE Dev(d, [m.e EXCEPT !.missed_write_count = 1])

---------------------------------------------------------------------------
\* The state after construction.

Init ==
    /\ phase = "boot"
    /\ alloc = NewAllocator
    /\ mmio_bus = {}
    /\ pci_bus = {}
    /\ pci_segment = FALSE
    /\ mmio_devices = EmptyRegistry
    /\ pci_devices = EmptyRegistry
    /\ acpi_devices = [vmgenid |-> None, vmclock |-> None]
    /\ mmds = BootMmds
    /\ snap = None
    /\ save_obs = NoSaveObs
    /\ rst = NoRestore
    /\ call = NoCall
    /\ i8042 = I8042Device_new
    /\ io = NoIo

\* HashMap::insert: add or replace the entry of key k.
Insert(map, k, v) ==
    [x \in DOMAIN map \cup {k} |-> IF x = k THEN v ELSE map[x]]

\* Calls of attach_virtio_device made so far.
Attached == alloc.mmio32 + alloc.bdf

---------------------------------------------------------------------------
\* Calls into the host and their failures.  An operation is a sequence of
\* calls threaded through a context record; a fault f = [step, n] makes the
\* n-th call of that step fail.

NoFault == [step |-> "none", n |-> 0]

Ev(reg, step, type, id) == [reg |-> reg, step |-> step, type |-> type, id |-> id]

RECURSIVE CountStep(_, _)
CountStep(log, step) ==
    IF log = << >> THEN 0
    ELSE (IF Head(log).step = step THEN 1 ELSE 0) + CountStep(Tail(log), step)

\* A fallible call `ev`: it is logged, and fails with `err` under the fault.
Fallible(R, f, ev, err) ==
    IF R.status # "ok" THEN R
    ELSE LET R1 == [R EXCEPT !.log = Append(@, ev)] IN
         IF f.step = ev.step /\ CountStep(R.log, ev.step) = f.n - 1
         THEN [R1 EXCEPT !.status = "err", !.err = err, !.hit = TRUE,
                         !.fail_type = ev.type, !.fail_step = ev.step]
         ELSE R1

\* An infallible call.
Infallible(R, ev) ==
    IF R.status # "ok" THEN R ELSE [R EXCEPT !.log = Append(@, ev)]

\* The statements that follow a call run only if it returned Ok.
Then(R, Eff(_)) == IF R.status = "ok" THEN Eff(R) ELSE R

---------------------------------------------------------------------------
\* Boot-time operations.

\* MMIODeviceManager::register_mmio_virtio_for_boot: allocate one MMIO slot
\* and one legacy GSI, put the transport on the MMIO bus, record the device.
attach_mmio_virtio_device(id, device, is_vhost_user) ==
    LET info == [addr |-> alloc.mmio32, gsi |-> alloc.gsi_legacy] IN
    /\ alloc' = [alloc EXCEPT !.mmio32 = @ + 1, !.gsi_legacy = @ + 1]
    /\ mmio_bus' = mmio_bus \cup
           { [class |-> "mmio32", addr |-> info.addr, type |-> device.type,
              id |-> id] }
    /\ mmio_devices' = Insert(mmio_devices, << device.type, id >>,
           [device |-> device, is_vhost_user |-> is_vhost_user,
            resources |-> info])
    /\ UNCHANGED << pci_bus, pci_devices >>

\* The steps of a PCI attach that can fail, each a `?` of
\* PciDevices::attach_pci_virtio_device.
AttachFaultSteps ==
    {"bdf", "msix", "transport", "bars", "pci_bus", "register", "ioevent"}

AttachFaults == { [step |-> st, n |-> 1] : st \in AttachFaultSteps }

\* The objects a PCI attach works on, as the current state holds them.
AttachContext ==
    [status |-> "ok", err |-> "", hit |-> FALSE, fail_type |-> "",
     fail_step |-> "", log |-> << >>, alloc |-> alloc, pci_bus |-> pci_bus,
     pci_devices |-> pci_devices, mmio_bus |-> mmio_bus]

\* Allocate one MSI vector per queue, plus one for configuration.
MsixNum(device) == NumQueues(device.type) + 1

\* Fault seeded for C24: a vector group with one vector per queue only.
PciDevices_attach_without_config_vector(B, f, id, device) ==
    LET pci_device_bdf == B.alloc.bdf
        msix_vectors == [base |-> B.alloc.gsi_msi, num |-> NumQueues(device.type)]
        bar_addr == B.alloc.bar64
        B1 == [B EXCEPT !.alloc.bdf = @ + 1,
                        !.alloc.gsi_msi = @ + NumQueues(device.type),
                        !.alloc.bar64 = @ + 1]
    IN [B1 EXCEPT
          !.log = << Ev("pci", "bdf", device.type, id),
                     Ev("pci", "msix", device.type, id),
                     Ev("pci", "transport", device.type, id),
                     Ev("pci", "bars", device.type, id),
                     Ev("pci", "pci_bus", device.type, id),
                     Ev("pci", "register", device.type, id),
                     Ev("pci", "ioevent", device.type, id) >>,
          !.pci_bus = @ \cup { [dev |-> pci_device_bdf, type |-> device.type,
                                id |-> id] },
          !.pci_devices = Insert(@, << device.type, id >>,
              [device |-> device, pci_device_bdf |-> pci_device_bdf,
               bar_addr |-> bar_addr, msix_vectors |-> msix_vectors]),
          !.mmio_bus = @ \cup { [class |-> "mmio64", addr |-> bar_addr,
                                 type |-> device.type, id |-> id] }]

\* Fault seeded for C25: the BAR region put on the MMIO bus at the address
\* the allocator would hand out next, before the BAR is allocated.
PciDevices_attach_bus_before_bars(B, f, id, device) ==
    LET pci_device_bdf == B.alloc.bdf
        msix_vectors == [base |-> B.alloc.gsi_msi, num |-> MsixNum(device)]
        bar_addr == B.alloc.bar64
        B1 == [B EXCEPT !.alloc.bdf = @ + 1,
                        !.alloc.gsi_msi = @ + MsixNum(device),
                        !.alloc.bar64 = @ + 1]
    IN [B1 EXCEPT
          !.log = << Ev("pci", "bdf", device.type, id),
                     Ev("pci", "msix", device.type, id),
                     Ev("pci", "transport", device.type, id),
                     Ev("pci", "pci_bus", device.type, id),
                     Ev("pci", "register", device.type, id),
                     Ev("pci", "bars", device.type, id),
                     Ev("pci", "ioevent", device.type, id) >>,
          !.pci_bus = @ \cup { [dev |-> pci_device_bdf, type |-> device.type,
                                id |-> id] },
          !.pci_devices = Insert(@, << device.type, id >>,
              [device |-> device, pci_device_bdf |-> pci_device_bdf,
               bar_addr |-> bar_addr, msix_vectors |-> msix_vectors]),
          !.mmio_bus = @ \cup { [class |-> "mmio64", addr |-> bar_addr,
                                 type |-> device.type, id |-> id] }]

\* Fault seeded for C26: the device recorded in the registry before its BARs
\* are allocated.
PciDevices_attach_inserting_before_bars(B, f, id, device) ==
    LET k == << device.type, id >>
        B1 == Then(Fallible(B, f, Ev("pci", "bdf", device.type, id), "PciRoot"),
                   LAMBDA X : [X EXCEPT !.alloc.bdf = @ + 1])
        B2 == Then(Fallible(B1, f, Ev("pci", "msix", device.type, id), "Msi"),
                   LAMBDA X : [X EXCEPT !.alloc.gsi_msi = @ + MsixNum(device)])
        B3 == Then(Fallible(B2, f, Ev("pci", "transport", device.type, id),
                            "VirtioPciDevice"),
                   LAMBDA X : [X EXCEPT !.pci_devices = Insert(@, k,
                       [device |-> device, pci_device_bdf |-> B.alloc.bdf,
                        bar_addr |-> B.alloc.bar64,
                        msix_vectors |-> [base |-> B.alloc.gsi_msi,
                                          num |-> MsixNum(device)]])])
        B4 == Then(Fallible(B3, f, Ev("pci", "bars", device.type, id),
                            "ResourceAllocation"),
                   LAMBDA X : [X EXCEPT !.alloc.bar64 = @ + 1])
        B5 == Then(Fallible(B4, f, Ev("pci", "pci_bus", device.type, id),
                            "PciDeviceError"),
                   LAMBDA X : [X EXCEPT !.pci_bus = @ \cup
                       { [dev |-> B.alloc.bdf, type |-> device.type,
                          id |-> id] }])
        B6 == Then(Fallible(B5, f, Ev("pci", "register", device.type, id), "Bus"),
                   LAMBDA X : [X EXCEPT !.mmio_bus = @ \cup
                       { [class |-> "mmio64", addr |-> B.alloc.bar64,
                          type |-> device.type, id |-> id] }])
    IN Fallible(B6, f, Ev("pci", "ioevent", device.type, id), "VirtioPciDevice")

\* Fault seeded for C39: the device recorded in the registry as the last
\* statement of the attach, after the ioeventfds are registered.
PciDevices_attach_inserting_last(B, f, id, device) ==
    LET k == << device.type, id >>
        B1 == Then(Fallible(B, f, Ev("pci", "bdf", device.type, id), "PciRoot"),
                   LAMBDA X : [X EXCEPT !.alloc.bdf = @ + 1])
        B2 == Then(Fallible(B1, f, Ev("pci", "msix", device.type, id), "Msi"),
                   LAMBDA X : [X EXCEPT !.alloc.gsi_msi = @ + MsixNum(device)])
        B3 == Fallible(B2, f, Ev("pci", "transport", device.type, id),
                       "VirtioPciDevice")
        B4 == Then(Fallible(B3, f, Ev("pci", "bars", device.type, id),
                            "ResourceAllocation"),
                   LAMBDA X : [X EXCEPT !.alloc.bar64 = @ + 1])
        B5 == Then(Fallible(B4, f, Ev("pci", "pci_bus", device.type, id),
                            "PciDeviceError"),
                   LAMBDA X : [X EXCEPT !.pci_bus = @ \cup
                       { [dev |-> B.alloc.bdf, type |-> device.type,
                          id |-> id] }])
        B6 == Then(Fallible(B5, f, Ev("pci", "register", device.type, id), "Bus"),
                   LAMBDA X : [X EXCEPT !.mmio_bus = @ \cup
                       { [class |-> "mmio64", addr |-> B.alloc.bar64,
                          type |-> device.type, id |-> id] }])
    IN Then(Fallible(B6, f, Ev("pci", "ioevent", device.type, id),
                     "VirtioPciDevice"),
            LAMBDA X : [X EXCEPT !.pci_devices = Insert(@, k,
                [device |-> device, pci_device_bdf |-> B.alloc.bdf,
                 bar_addr |-> B.alloc.bar64,
                 msix_vectors |-> [base |-> B.alloc.gsi_msi,
                                   num |-> MsixNum(device)]])])

\* PciDevices::attach_pci_virtio_device, statement by statement: the next
\* BDF of the segment, the MSI-X vector group, the transport, the BARs, the
\* device on the PCI bus, the registry entry, the BAR region on the MMIO bus
\* (register_bars_with_bus) and the ioeventfds of the queues.  A failed call
\* returns at once and what the earlier calls did stays done.
PciDevices_attach_pci_virtio_device(B, f, id, device) ==
    LET k == << device.type, id >>
        pci_device_bdf == B.alloc.bdf
        msix_num == MsixNum(device)
        msix_vectors == [base |-> B.alloc.gsi_msi, num |-> msix_num]
        bar_addr == B.alloc.bar64
        B1 == Then(Fallible(B, f, Ev("pci", "bdf", device.type, id), "PciRoot"),
                   LAMBDA X : [X EXCEPT !.alloc.bdf = @ + 1])
        B2 == Then(Fallible(B1, f, Ev("pci", "msix", device.type, id), "Msi"),
                   LAMBDA X : [X EXCEPT !.alloc.gsi_msi = @ + msix_num])
        B3 == Fallible(B2, f, Ev("pci", "transport", device.type, id),
                       "VirtioPciDevice")
        B4 == Then(Fallible(B3, f, Ev("pci", "bars", device.type, id),
                            "ResourceAllocation"),
                   LAMBDA X : [X EXCEPT !.alloc.bar64 = @ + 1])
        B5 == Then(Fallible(B4, f, Ev("pci", "pci_bus", device.type, id),
                            "PciDeviceError"),
                   LAMBDA X :
                     [X EXCEPT !.pci_bus = @ \cup
                                 { [dev |-> pci_device_bdf,
                                    type |-> device.type, id |-> id] },
                               !.pci_devices = Insert(@, k,
                                 [device |-> device,
                                  pci_device_bdf |-> pci_device_bdf,
                                  bar_addr |-> bar_addr,
                                  msix_vectors |-> msix_vectors])])
        B6 == Then(Fallible(B5, f, Ev("pci", "register", device.type, id), "Bus"),
                   LAMBDA X :
                     [X EXCEPT !.mmio_bus = @ \cup
                                 { [class |-> "mmio64", addr |-> bar_addr,
                                    type |-> device.type, id |-> id] }])
    IN Fallible(B6, f, Ev("pci", "ioevent", device.type, id), "VirtioPciDevice")

\* PciDevices::attach_pci_virtio_device when every call succeeds.
attach_pci_virtio_device(id, device) ==
    LET B == PciDevices_attach_pci_virtio_device(AttachContext, NoFault, id,
                                                 device)
    IN /\ alloc' = B.alloc
       /\ pci_bus' = B.pci_bus
       /\ pci_devices' = B.pci_devices
       /\ mmio_bus' = B.mmio_bus
       /\ UNCHANGED mmio_devices

attach_virtio_device ==
    /\ phase = "boot"
    /\ Attached < MaxDevices
    /\ \E device \in AttachableDevices :
          IF pci_segment
          THEN attach_pci_virtio_device(device.id, device)
          ELSE attach_mmio_virtio_device(device.id, device, device.vhost)
    /\ call' = NoCall
    /\ UNCHANGED << phase, pci_segment, acpi_devices, mmds, snap, save_obs, rst >>
    /\ UNCHANGED << i8042, io >>

\* DeviceManager::attach_virtio_device in PCI mode, its result observed by
\* the caller; one of the calls it makes into the host may fail.
call_attach_pci_virtio_device ==
    /\ phase = "boot"
    /\ pci_segment
    /\ Attached < MaxDevices
    /\ \E device \in AttachableDevices, f \in AttachFaults \cup {NoFault} :
          LET B == PciDevices_attach_pci_virtio_device(AttachContext, f,
                                                       device.id, device)
          IN /\ alloc' = B.alloc
             /\ pci_bus' = B.pci_bus
             /\ pci_devices' = B.pci_devices
             /\ mmio_bus' = B.mmio_bus
             /\ call' = [NoCall EXCEPT
                            !.op = "attach_pci_virtio_device",
                            !.type = device.type, !.id = device.id,
                            !.status = IF B.status = "ok" THEN "ok" ELSE B.err,
                            !.log = B.log]
    /\ UNCHANGED << phase, pci_segment, mmio_devices, acpi_devices, mmds, snap,
                    save_obs, rst >>
    /\ UNCHANGED << i8042, io >>

\* Fault seeded for C13: attach_pci_segment returning an error, instead of
\* asserting, when the segment exists.
attach_pci_segment_returning_err ==
    /\ phase = "boot"
    /\ IF pci_segment
       THEN /\ call' = [NoCall EXCEPT !.op = "enable_pci", !.status = "err"]
            /\ UNCHANGED << phase, pci_segment >>
       ELSE /\ pci_segment' = TRUE
            /\ call' = [NoCall EXCEPT !.op = "enable_pci", !.status = "ok"]
            /\ UNCHANGED phase
    /\ UNCHANGED << alloc, mmio_bus, pci_bus, mmio_devices, pci_devices,
                    acpi_devices, mmds, snap, save_obs, rst >>
    /\ UNCHANGED << i8042, io >>

\* DeviceManager::enable_pci -> PciDevices::attach_pci_segment:
\* assert!(self.pci_segment.is_none()) makes a second call a panic.
attach_pci_segment ==
    /\ phase = "boot"
    /\ IF pci_segment
       THEN /\ phase' = "panic"
            /\ call' = [NoCall EXCEPT !.op = "enable_pci", !.status = "panic"]
            /\ UNCHANGED pci_segment
       ELSE /\ pci_segment' = TRUE
            /\ call' = [NoCall EXCEPT !.op = "enable_pci", !.status = "ok"]
            /\ UNCHANGED phase
    /\ UNCHANGED << alloc, mmio_bus, pci_bus, mmio_devices, pci_devices,
                    acpi_devices, mmds, snap, save_obs, rst >>
    /\ UNCHANGED << i8042, io >>

\* enable_pci as the VMM calls it: it chooses the transport before it
\* attaches the first device (as test_device_manager_persistence does).
enable_pci ==
    /\ Attached = 0
    /\ attach_pci_segment

\* DeviceManager::attach_mmio_virtio_device called by itself: it is pub(crate)
\* and does not look at the transport mode.
direct_attach_mmio_virtio_device ==
    /\ phase = "boot"
    /\ Attached < MaxDevices
    /\ \E device \in AttachableDevices :
          attach_mmio_virtio_device(device.id, device, device.vhost)
    /\ call' = NoCall
    /\ UNCHANGED << phase, pci_segment, acpi_devices, mmds, snap, save_obs, rst >>
    /\ UNCHANGED << i8042, io >>

\* The boot timer as the MMIO device manager holds it: one MMIO slot, no
\* interrupt line.
BootTimerOnBus(bus) == { e \in bus : e.type = "boot_timer" }

\* DeviceManager::attach_boot_timer_device ->
\* MMIODeviceManager::register_mmio_boot_timer, whatever the transport mode.
attach_boot_timer_device ==
    /\ phase = "boot"
    /\ Attached < MaxDevices
    /\ BootTimerOnBus(mmio_bus) = {}
    /\ alloc' = [alloc EXCEPT !.mmio32 = @ + 1]
    /\ mmio_bus' = mmio_bus \cup
           { [class |-> "mmio32", addr |-> alloc.mmio32, type |-> "boot_timer",
              id |-> ""] }
    /\ call' = NoCall
    /\ UNCHANGED << phase, pci_bus, pci_segment, mmio_devices, pci_devices,
                    acpi_devices, mmds, snap, save_obs, rst >>
    /\ UNCHANGED << i8042, io >>

\* VmGenId::new: one legacy GSI and 16 bytes of system memory.
VmGenId_new(a) ==
    [dev |-> [gsi |-> a.gsi_legacy, guest_address |-> a.sysmem],
     alloc |-> [a EXCEPT !.gsi_legacy = @ + 1, !.sysmem = @ + 1]]

\* Fault seeded for C19: the VMGenID attached at any point of the boot, also
\* after virtio devices.
attach_vmgenid_device_any_time ==
    /\ phase = "boot"
    /\ IsNone(acpi_devices.vmgenid)
    /\ LET r == VmGenId_new(alloc) IN
         /\ alloc' = r.alloc
         /\ acpi_devices' = [acpi_devices EXCEPT !.vmgenid = Some(r.dev)]
    /\ call' = NoCall
    /\ UNCHANGED << phase, mmio_bus, pci_bus, pci_segment, mmio_devices,
                    pci_devices, mmds, snap, save_obs, rst >>
    /\ UNCHANGED << i8042, io >>

\* DeviceManager::attach_vmgenid_device; the VMM attaches the ACPI devices
\* before the virtio devices.
attach_vmgenid_device ==
    /\ phase = "boot"
    /\ Attached = 0
    /\ IsNone(acpi_devices.vmgenid)
    /\ LET r == VmGenId_new(alloc) IN
         /\ alloc' = r.alloc
         /\ acpi_devices' = [acpi_devices EXCEPT !.vmgenid = Some(r.dev)]
    /\ call' = NoCall
    /\ UNCHANGED << phase, mmio_bus, pci_bus, pci_segment, mmio_devices,
                    pci_devices, mmds, snap, save_obs, rst >>
    /\ UNCHANGED << i8042, io >>

\* VmClock::new: one legacy GSI and a page of system memory.
VmClock_new(a) ==
    [dev |-> [gsi |-> a.gsi_legacy, guest_address |-> a.sysmem],
     alloc |-> [a EXCEPT !.gsi_legacy = @ + 1, !.sysmem = @ + 1]]

\* ACPIDeviceManager::attach_vmclock; the VMM attaches the ACPI devices
\* before the virtio devices.
attach_vmclock_device ==
    /\ phase = "boot"
    /\ Attached = 0
    /\ IsNone(acpi_devices.vmclock)
    /\ LET r == VmClock_new(alloc) IN
         /\ alloc' = r.alloc
         /\ acpi_devices' = [acpi_devices EXCEPT !.vmclock = Some(r.dev)]
    /\ call' = NoCall
    /\ UNCHANGED << phase, mmio_bus, pci_bus, pci_segment, mmio_devices,
                    pci_devices, mmds, snap, save_obs, rst >>
    /\ UNCHANGED << i8042, io >>

\* The guest driver writes DRIVER_OK to a transport that is on the bus: the
\* transport activates the wrapped device.
Activated(d) == [d EXCEPT !.activated = TRUE, !.acts = @ + 1]

guest_activate ==
    /\ phase = "boot"
    /\ \/ \E k \in DOMAIN mmio_devices :
            /\ ~mmio_devices[k].device.activated
            /\ mmio_devices' = [mmio_devices EXCEPT ![k].device = Activated(@)]
            /\ UNCHANGED pci_devices
       \/ \E k \in DOMAIN pci_devices :
            /\ ~pci_devices[k].device.activated
            /\ pci_devices' = [pci_devices EXCEPT ![k].device = Activated(@)]
            /\ UNCHANGED mmio_devices
    /\ call' = NoCall
    /\ UNCHANGED << phase, alloc, mmio_bus, pci_bus, pci_segment,
                    acpi_devices, mmds, snap, save_obs, rst >>
    /\ UNCHANGED << i8042, io >>

---------------------------------------------------------------------------
\* Lookup and dispatch (mod.rs 327-379, pci_mngr.rs 204-212).

\* PciDevices::get_virtio_device / MMIODeviceManager::get_virtio_device:
\* HashMap::get on the registry.
Registry_get_virtio_device(devs, virtio_type, device_id) ==
    IF << virtio_type, device_id >> \in DOMAIN devs
    THEN Some(devs[<< virtio_type, device_id >>])
    ELSE None

\* Fault seeded for C12: get_virtio_device falling back to the MMIO registry
\* when the PCI registry does not hold the key.
get_virtio_device_falling_back(virtio_type, device_id) ==
    LET pci_device ==
            Registry_get_virtio_device(pci_devices, virtio_type, device_id)
        mmio_device ==
            Registry_get_virtio_device(mmio_devices, virtio_type, device_id)
    IN IF pci_segment /\ IsSome(pci_device)
       THEN Some([from |-> "pci", device |-> pci_device[1].device])
       ELSE IF IsSome(mmio_device)
            THEN Some([from |-> "mmio", device |-> mmio_device[1].device])
            ELSE None

\* Fault seeded for C14: get_virtio_device consulting the PCI registry
\* whether or not a PCI segment exists.
get_virtio_device_ignoring_segment(virtio_type, device_id) ==
    LET pci_device ==
            Registry_get_virtio_device(pci_devices, virtio_type, device_id)
        mmio_device ==
            Registry_get_virtio_device(mmio_devices, virtio_type, device_id)
    IN IF pci_segment
       THEN IF IsSome(mmio_device)
            THEN Some([from |-> "mmio", device |-> mmio_device[1].device])
            ELSE None
       ELSE IF IsSome(mmio_device)
            THEN Some([from |-> "mmio", device |-> mmio_device[1].device])
            ELSE None

\* DeviceManager::get_virtio_device: Option of the handle of the wrapped
\* device, with the registry it was taken from.
get_virtio_device(virtio_type, device_id) ==
    IF pci_segment
    THEN LET pci_device ==
                 Registry_get_virtio_device(pci_devices, virtio_type, device_id)
         IN IF IsSome(pci_device)
            THEN Some([from |-> "pci", device |-> pci_device[1].device])
            ELSE None
    ELSE LET mmio_device ==
                 Registry_get_virtio_device(mmio_devices, virtio_type, device_id)
         IN IF IsSome(mmio_device)
            THEN Some([from |-> "mmio", device |-> mmio_device[1].device])
            ELSE None

\* Fault seeded for C15: with_virtio_device_with_id dropping the result of
\* the closure.
with_virtio_device_with_id_dropping_result(virtio_type, id, kind, f_ok) ==
    LET device == get_virtio_device(virtio_type, id) IN
    IF IsSome(device)
    THEN IF device[1].device.type # kind
         THEN [status |-> "InvalidDeviceType", found |-> device, ran |-> 0]
         ELSE [status |-> "ok", found |-> device, ran |-> 1]
    ELSE [status |-> "DeviceNotFound", found |-> device, ran |-> 0]

\* DeviceManager::with_virtio_device_with_id::<T, F>: kind is T, f_ok the
\* result of the caller's closure f should it run.
with_virtio_device_with_id(virtio_type, id, kind, f_ok) ==
    LET device == get_virtio_device(virtio_type, id) IN
    IF IsSome(device)
    THEN IF device[1].device.type # kind
         THEN [status |-> "InvalidDeviceType", found |-> device, ran |-> 0]
         ELSE IF f_ok
              THEN [status |-> "ok", found |-> device, ran |-> 1]
              ELSE [status |-> "InternalDeviceError", found |-> device,
                    ran |-> 1]
    ELSE [status |-> "DeviceNotFound", found |-> device, ran |-> 0]

\* The keys and concrete kinds callers ask for.
QueryKeys == { << TYPE_BLOCK, "a" >>, << TYPE_NET, "a" >>, << TYPE_NET, "b" >> }
QueryKinds == { TYPE_BLOCK, TYPE_NET }

\* A caller looks a device up.
call_get_virtio_device ==
    /\ phase = "boot"
    /\ \E k \in QueryKeys :
          call' = [NoCall EXCEPT !.op = "get_virtio_device", !.type = k[1],
                                 !.id = k[2], !.status = "ok",
                                 !.found = get_virtio_device(k[1], k[2])]
    /\ UNCHANGED << phase, alloc, mmio_bus, pci_bus, pci_segment, mmio_devices,
                    pci_devices, acpi_devices, mmds, snap, save_obs, rst >>
    /\ UNCHANGED << i8042, io >>

\* A caller runs a closure on a device.
call_with_virtio_device_with_id ==
    /\ phase = "boot"
    /\ \E k \in QueryKeys, kind \in QueryKinds, f_ok \in BOOLEAN :
          LET r == with_virtio_device_with_id(k[1], k[2], kind, f_ok) IN
          call' = [NoCall EXCEPT !.op = "with_virtio_device_with_id",
                                 !.type = k[1], !.id = k[2], !.kind = kind,
                                 !.f_ok = f_ok,
                                 !.status = r.status, !.found = r.found,
                                 !.ran = r.ran]
    /\ UNCHANGED << phase, alloc, mmio_bus, pci_bus, pci_segment, mmio_devices,
                    pci_devices, acpi_devices, mmds, snap, save_obs, rst >>
    /\ UNCHANGED << i8042, io >>

---------------------------------------------------------------------------
\* Save (persist.rs 217-345, pci_mngr.rs 271-396, mod.rs 438-444).

\* A call made on a device: it is appended to the calls the device received.
Call(d, op) == [d EXCEPT !.ops = Append(@, op)]

\* The kind-specific state a device's save() returns.
DeviceState(d) == [activated |-> d.activated, mmds_ns |-> d.mmds_ns]

\* The calls of save that make an activated device notify the guest.
NotifyingCalls == { "prepare_save", "send_transport_reset_event" }

\* The interrupt-status latch of the transport of device d: set once the
\* device, activated, has received a call that notifies the guest.
InterruptStatus(d) ==
    d.activated /\ \E i \in 1..Len(d.ops) : d.ops[i] \in NotifyingCalls

\* MmioTransport::save.
MmioTransport_save(e) ==
    [device_status_ok |-> e.device.activated,
     interrupt_status |-> InterruptStatus(e.device)]

\* VirtioPciDevice::state.
VirtioPciDevice_state(e) ==
    [pci_device_bdf |-> e.pci_device_bdf, bar_addr |-> e.bar_addr,
     msi_vector_group |-> e.msix_vectors,
     device_activated |-> e.device.activated,
     interrupt_status |-> InterruptStatus(e.device)]

\* DeviceStates::default() / PciDevicesState::default().
DeviceStates_default ==
    [block_devices |-> << >>, net_devices |-> << >>, vsock_device |-> None,
     balloon_device |-> None, mmds |-> None, entropy_device |-> None]

PciDevicesState_default ==
    [pci_enabled |-> FALSE, block_devices |-> << >>, net_devices |-> << >>,
     vsock_device |-> None, balloon_device |-> None, mmds |-> None,
     entropy_device |-> None]

\* Fault seeded for C9: the TYPE_BLOCK arm without the is_vhost_user() test.
SaveBlock_any_backend(block) ==
    LET b1 == Call(block, "prepare_save")
        b2 == Call(b1, "save")
    IN [device |-> b2, state |-> Some(DeviceState(b1)), warned |-> 0]

\* Fault seeded for C11: the TYPE_BLOCK arm reading the state before it
\* prepares the device.
SaveBlock_reading_before_prepare(block) ==
    IF block.vhost
    THEN [device |-> block, state |-> None, warned |-> 1]
    ELSE LET b1 == Call(block, "save")
             b2 == Call(b1, "prepare_save")
         IN [device |-> b2, state |-> Some(DeviceState(block)), warned |-> 0]

\* The TYPE_BLOCK arm: [device after the arm, Option<BlockState>, warned].
SaveBlock(block) ==
    IF block.vhost
    THEN [device |-> block, state |-> None, warned |-> 1]
    ELSE LET b1 == Call(block, "prepare_save")
             b2 == Call(b1, "save")
         IN [device |-> b2, state |-> Some(DeviceState(b1)), warned |-> 0]

\* Fault seeded for C8: the TYPE_NET arm matching on net.mmds_ns alone, so that
\* every network device with a namespace assigns states.mmds.
SaveNet_overwriting(net, states_mmds, shared_mmds) ==
    LET take == net.mmds_ns
        n1 == Call(net, "prepare_save")
        n2 == Call(n1, "save")
    IN [device |-> n2, state |-> DeviceState(n1),
        mmds |-> IF take
                 THEN Some([version |-> shared_mmds.version,
                            imds_compat |-> shared_mmds.imds_compat])
                 ELSE states_mmds,
        wrote |-> IF take THEN << net.id >> ELSE << >>]

\* The TYPE_NET arm: [device after the arm, NetState, Option<MmdsState>,
\* the assignment to states.mmds made (the id of the device it is from)].
SaveNet(net, states_mmds, shared_mmds) ==
    LET take == net.mmds_ns /\ IsNone(states_mmds)
        n1 == Call(net, "prepare_save")
        n2 == Call(n1, "save")
    IN [device |-> n2, state |-> DeviceState(n1),
        mmds |-> IF take
                 THEN Some([version |-> shared_mmds.version,
                            imds_compat |-> shared_mmds.imds_compat])
                 ELSE states_mmds,
        wrote |-> IF take THEN << net.id >> ELSE << >>]

\* Fault seeded for C10: the TYPE_VSOCK arm reading the backend and frontend
\* state before it notifies the guest.
SaveVsock_reset_after_read(vsock, reset_ok) ==
    LET v1 == Call(vsock, "backend_save")
        v2 == Call(v1, "save")
        v3 == IF vsock.activated
              THEN Call(v2, "send_transport_reset_event")
              ELSE v2
    IN [device |-> v3, state |-> DeviceState(v1),
        errors |-> IF vsock.activated /\ ~reset_ok THEN 1 ELSE 0]

\* The TYPE_VSOCK arm; reset_ok is the outcome of
\* send_transport_reset_event: [device after the arm, VsockState, errors logged].
SaveVsock(vsock, reset_ok) ==
    LET v1 == IF vsock.activated
              THEN Call(vsock, "send_transport_reset_event")
              ELSE vsock
        v2 == Call(v1, "backend_save")
        v3 == Call(v2, "save")
    IN [device |-> v3, state |-> DeviceState(v2),
        errors |-> IF vsock.activated /\ ~reset_ok THEN 1 ELSE 0]

\* The closure body of MMIODeviceManager::save for the device of key k.
\* acc = [states, devs, writes, warnings, errors, unreachable]: the
\* DeviceStates being built, the devices, the assignments made to states.mmds
\* (ids of the devices they are from), the warnings and errors logged, and
\* whether the `_ => unreachable!()` arm was entered.
MmioSaveDevice(acc, k, shared_mmds, reset_ok) ==
    LET e == acc.devs[k]
        transport_state == MmioTransport_save(e)
        device_info == e.resources
        device_id == k[2]
        d == e.device
        Entry(device_state) ==
            [device_id |-> device_id, device_state |-> device_state,
             transport_state |-> transport_state, device_info |-> device_info]
    IN
    CASE d.type = TYPE_BALLOON ->
           [acc EXCEPT !.states.balloon_device = Some(Entry(DeviceState(d))),
                       !.devs[k].device = Call(d, "save")]
      [] d.type = TYPE_BLOCK ->
           LET r == SaveBlock(d) IN
           [acc EXCEPT !.states.block_devices =
                           IF IsSome(r.state)
                           THEN Append(@, Entry(r.state[1])) ELSE @,
                       !.devs[k].device = r.device,
                       !.warnings = @ + r.warned]
      [] d.type = TYPE_NET ->
           LET r == SaveNet(d, acc.states.mmds, shared_mmds) IN
           [acc EXCEPT !.states.mmds = r.mmds,
                       !.states.net_devices = Append(@, Entry(r.state)),
                       !.devs[k].device = r.device,
                       !.writes = @ \o r.wrote]
      [] d.type = TYPE_VSOCK ->
           LET r == SaveVsock(d, reset_ok) IN
           [acc EXCEPT !.states.vsock_device = Some(Entry(r.state)),
                       !.devs[k].device = r.device,
                       !.errors = @ + r.errors]
      [] d.type = TYPE_RNG ->
           [acc EXCEPT !.states.entropy_device = Some(Entry(DeviceState(d))),
                       !.devs[k].device = Call(d, "save")]
      [] OTHER -> [acc EXCEPT !.unreachable = TRUE]

\* The loop body of PciDevices::save for the device of key k.
PciSaveDevice(acc, k, shared_mmds, reset_ok) ==
    LET e == acc.devs[k]
        transport_state == VirtioPciDevice_state(e)
        pci_device_bdf == transport_state.pci_device_bdf
        d == e.device
        Entry(device_state) ==
            [device_id |-> d.id, pci_device_bdf |-> pci_device_bdf,
             device_state |-> device_state,
             transport_state |-> transport_state]
    IN
    CASE d.type = TYPE_BALLOON ->
           [acc EXCEPT !.states.balloon_device = Some(Entry(DeviceState(d))),
                       !.devs[k].device = Call(d, "save")]
      [] d.type = TYPE_BLOCK ->
           LET r == SaveBlock(d) IN
           [acc EXCEPT !.states.block_devices =
                           IF IsSome(r.state)
                           THEN Append(@, Entry(r.state[1])) ELSE @,
                       !.devs[k].device = r.device,
                       !.warnings = @ + r.warned]
      [] d.type = TYPE_NET ->
           LET r == SaveNet(d, acc.states.mmds, shared_mmds) IN
           [acc EXCEPT !.states.mmds = r.mmds,
                       !.states.net_devices = Append(@, Entry(r.state)),
                       !.devs[k].device = r.device,
                       !.writes = @ \o r.wrote]
      [] d.type = TYPE_VSOCK ->
           LET r == SaveVsock(d, reset_ok) IN
           [acc EXCEPT !.states.vsock_device = Some(Entry(r.state)),
                       !.devs[k].device = r.device,
                       !.errors = @ + r.errors]
      [] d.type = TYPE_RNG ->
           [acc EXCEPT !.states.entropy_device = Some(Entry(DeviceState(d))),
                       !.devs[k].device = Call(d, "save")]
      [] OTHER -> [acc EXCEPT !.unreachable = TRUE]

\* for_each_virtio_device / HashMap::values: visit the keys in `order`.
RECURSIVE MmioSaveLoop(_, _, _, _)
MmioSaveLoop(acc, order, shared_mmds, reset_ok) ==
    IF order = << >> THEN acc
    ELSE MmioSaveLoop(MmioSaveDevice(acc, Head(order), shared_mmds, reset_ok),
                      Tail(order), shared_mmds, reset_ok)

RECURSIVE PciSaveLoop(_, _, _, _)
PciSaveLoop(acc, order, shared_mmds, reset_ok) ==
    IF order = << >> THEN acc
    ELSE PciSaveLoop(PciSaveDevice(acc, Head(order), shared_mmds, reset_ok),
                     Tail(order), shared_mmds, reset_ok)

\* MMIODeviceManager::save.
MMIODeviceManager_save(devs, order, shared_mmds, reset_ok) ==
    MmioSaveLoop([states |-> DeviceStates_default, devs |-> devs,
                  writes |-> << >>, warnings |-> 0, errors |-> 0,
                  unreachable |-> FALSE],
                 order, shared_mmds, reset_ok)

\* Fault seeded for C16: PciDevices::save marking the section enabled before
\* it looks for the segment.
PciDevices_save_always_enabled(segment, devs, order, shared_mmds, reset_ok) ==
    LET acc0 == [states |-> [PciDevicesState_default EXCEPT !.pci_enabled = TRUE],
                 devs |-> devs, writes |-> << >>, warnings |-> 0, errors |-> 0,
                 unreachable |-> FALSE]
    IN IF segment
       THEN PciSaveLoop(acc0, order, shared_mmds, reset_ok)
       ELSE acc0

\* PciDevices::save.
PciDevices_save(segment, devs, order, shared_mmds, reset_ok) ==
    LET acc0 == [states |-> PciDevicesState_default, devs |-> devs,
                 writes |-> << >>, warnings |-> 0, errors |-> 0,
                 unreachable |-> FALSE]
    IN IF segment
       THEN PciSaveLoop([acc0 EXCEPT !.states.pci_enabled = TRUE],
                        order, shared_mmds, reset_ok)
       ELSE acc0

\* VmGenId::save and ACPIDeviceManager::save.
VmGenId_save(dev) == [gsi |-> dev.gsi, addr |-> dev.guest_address]

ACPIDeviceManager_save(acpi) ==
    [vmgenid |-> IF IsSome(acpi.vmgenid)
                 THEN Some(VmGenId_save(acpi.vmgenid[1])) ELSE None]

\* DeviceManager::save.  The iteration orders of the two hash maps and the
\* outcome of the vsock reset notification are not determined by the caller.
save ==
    /\ phase = "boot"
    /\ \E mo \in Perms(DOMAIN mmio_devices), po \in Perms(DOMAIN pci_devices),
          reset_ok \in BOOLEAN :
         LET m == MMIODeviceManager_save(mmio_devices, mo, mmds, reset_ok)
             a == ACPIDeviceManager_save(acpi_devices)
             p == PciDevices_save(pci_segment, pci_devices, po, mmds, reset_ok)
         IN IF m.unreachable \/ p.unreachable
            THEN /\ phase' = "panic"
                 /\ UNCHANGED << snap, mmio_devices, pci_devices, save_obs >>
            ELSE /\ snap' = Some([mmio_state |-> m.states, acpi_state |-> a,
                                  pci_state |-> p.states])
                 /\ mmio_devices' = m.devs
                 /\ pci_devices' = p.devs
                 /\ save_obs' = [mmio_mmds_writes |-> m.writes,
                                 pci_mmds_writes |-> p.writes,
                                 warnings |-> m.warnings + p.warnings,
                                 errors |-> m.errors + p.errors,
                                 completed |-> TRUE]
                 /\ phase' = "saved"
    /\ call' = NoCall
    /\ UNCHANGED << alloc, mmio_bus, pci_bus, pci_segment, acpi_devices, mmds,
                    rst >>
    /\ UNCHANGED << i8042, io >>

---------------------------------------------------------------------------
\* Restore (mod.rs 446-501, persist.rs 193-209 and 347-558,
\* pci_mngr.rs 157-202 and 398-570).
\*
\* A restore threads a context R through its steps:
\*   status     "ok" while no call has failed, then "err" (an Err travelling
\*              up through `?`) or "panic" (an unwrap() of an Err)
\*   err        the DevicePersistError / PciManagerError variant
\*   hit        a call has failed
\*   fail_type  the device type being restored when the call failed
\*   fail_step  the kind of call that failed
\*   log        the calls made so far, in order
\* and the objects under construction.  A fault f = [step, n] makes the n-th
\* call of kind `step` fail.

FaultSteps ==
    {"legacy", "restore", "update", "transport", "pci_bus", "register",
     "activate", "mmds", "acpi", "notify", "segment", "serial", "ioevent"}

Faults ==
    { NoFault } \cup
    { [step |-> st, n |-> i] : st \in FaultSteps, i \in 1..MaxFailIdx }

\* The state before the first step of a restore into a fresh Vm.
NewRestore ==
    [status |-> "ok", err |-> "", hit |-> FALSE, fail_type |-> "",
     fail_step |-> "", log |-> << >>, mmio_devices |-> EmptyRegistry,
     pci_devices |-> EmptyRegistry, pci_segment |-> FALSE,
     acpi_devices |-> [vmgenid |-> None, vmclock |-> None], mmds |-> None,
     table |-> {},
     subs |-> {}, net_args |-> [k \in {} |-> None], mmio_bus |-> {},
     pci_bus |-> {}, alloc |-> NewAllocator]

\* Result::unwrap(): an Err becomes a panic.
Unwrapped(R) == IF R.status = "err" THEN [R EXCEPT !.status = "panic"] ELSE R

\* Fault seeded for C27: the entropy section restored as a device of a kind
\* save has no arm for.
RestoredDevice_of_other_kind(type, st) ==
    [type |-> IF type = TYPE_RNG THEN "mem" ELSE type, id |-> st.device_id,
     vhost |-> FALSE, mmds_ns |-> st.device_state.mmds_ns,
     activated |-> FALSE, ops |-> << >>, acts |-> 0]

\* The device object a kind-specific restore builds from its saved state.
RestoredDevice(type, st) ==
    NewDevice(type, st.device_id, FALSE, st.device_state.mmds_ns)

\* Net::restore fails when the saved state has an MMDS network stack and the
\* constructor arguments carry no Mmds.
KindRestoreFails(type, st, R) ==
    type = TYPE_NET /\ st.device_state.mmds_ns /\ IsNone(R.mmds)

\* The DevicePersistError variant a failed kind-specific restore maps to.
KindError(type) ==
    CASE type = TYPE_BALLOON -> "Balloon"
      [] type = TYPE_BLOCK -> "Block"
      [] type = TYPE_NET -> "Net"
      [] type = TYPE_VSOCK -> "Vsock"
      [] OTHER -> "Entropy"

\* <Kind>::restore(..): the device is built with the Mmds then in VmResources.
KindRestore(R, f, reg, type, st) ==
    LET R1 == Fallible(R, f, Ev(reg, "restore", type, st.device_id),
                       KindError(type))
    IN Then(R1, LAMBDA X :
         IF KindRestoreFails(type, st, X)
         THEN [X EXCEPT !.status = "err", !.err = KindError(type),
                        !.fail_type = type, !.fail_step = "restore"]
         ELSE IF type = TYPE_NET
              THEN [X EXCEPT !.net_args =
                        Insert(@, << type, st.device_id >>, X.mmds)]
              ELSE X)

\* vm_resources.update_from_restored_device(..).
UpdateFromRestoredDevice(R, f, reg, type, st) ==
    Then(Fallible(R, f, Ev(reg, "update", type, st.device_id), "ResourcesError"),
         LAMBDA X : [X EXCEPT !.table = @ \cup {<< type, st.device_id >>}])

\* VirtioDevice::activate on the device held in registry `field` under key k.
ActivateIn(R, field, k) ==
    IF field = "mmio"
    THEN [R EXCEPT !.mmio_devices[k].device = Activated(@)]
    ELSE [R EXCEPT !.pci_devices[k].device = Activated(@)]

\* Fault seeded for C5: restore_helper logging a failed activation instead of
\* returning it.
restore_helper_ignoring_activate_error(R, f, device, activated, is_vhost_user, id, state, device_info) ==
    LET k == << device.type, id >>
        R1 == Fallible(R, f, Ev("mmio", "transport", device.type, id),
                       "MmioTransport")
        R2 == Then(Fallible(R1, f, Ev("mmio", "register", device.type, id),
                            "DeviceManager"),
                   LAMBDA X :
                     [X EXCEPT !.mmio_bus = @ \cup
                                 { [class |-> "mmio32", addr |-> device_info.addr,
                                    type |-> device.type, id |-> id] },
                               !.mmio_devices = Insert(@, k,
                                 [device |-> device,
                                  is_vhost_user |-> is_vhost_user,
                                  resources |-> device_info])])
        A  == Fallible(R2, f, Ev("mmio", "activate", device.type, id),
                       "DeviceActivation")
        R3 == IF activated /\ R2.status = "ok"
              THEN IF A.status = "ok" THEN ActivateIn(A, "mmio", k)
                   ELSE [A EXCEPT !.status = "ok", !.err = ""]
              ELSE R2
    IN Then(Infallible(R3, Ev("mmio", "subscribe", device.type, id)),
            LAMBDA X : [X EXCEPT !.subs = @ \cup {k}])

\* Fault seeded for C7: restore_helper activating whatever the saved flag.
restore_helper_always_activating(R, f, device, activated, is_vhost_user, id, state, device_info) ==
    LET k == << device.type, id >>
        R1 == Fallible(R, f, Ev("mmio", "transport", device.type, id),
                       "MmioTransport")
        R2 == Then(Fallible(R1, f, Ev("mmio", "register", device.type, id),
                            "DeviceManager"),
                   LAMBDA X :
                     [X EXCEPT !.mmio_bus = @ \cup
                                 { [class |-> "mmio32", addr |-> device_info.addr,
                                    type |-> device.type, id |-> id] },
                               !.mmio_devices = Insert(@, k,
                                 [device |-> device,
                                  is_vhost_user |-> is_vhost_user,
                                  resources |-> device_info])])
        R3 == Then(Fallible(R2, f, Ev("mmio", "activate", device.type, id),
                            "DeviceActivation"),
                   LAMBDA X : ActivateIn(X, "mmio", k))
    IN Then(Infallible(R3, Ev("mmio", "subscribe", device.type, id)),
            LAMBDA X : [X EXCEPT !.subs = @ \cup {k}])

\* The restore_helper closure of MMIODeviceManager::restore.
restore_helper(R, f, device, activated, is_vhost_user, id, state, device_info) ==
    LET k == << device.type, id >>
        R1 == Fallible(R, f, Ev("mmio", "transport", device.type, id),
                       "MmioTransport")
        R2 == Then(Fallible(R1, f, Ev("mmio", "register", device.type, id),
                            "DeviceManager"),
                   LAMBDA X :
                     [X EXCEPT !.mmio_bus = @ \cup
                                 { [class |-> "mmio32", addr |-> device_info.addr,
                                    type |-> device.type, id |-> id] },
                               !.mmio_devices = Insert(@, k,
                                 [device |-> device,
                                  is_vhost_user |-> is_vhost_user,
                                  resources |-> device_info])])
        R3 == IF activated
              THEN Then(Fallible(R2, f, Ev("mmio", "activate", device.type, id),
                                 "DeviceActivation"),
                        LAMBDA X : ActivateIn(X, "mmio", k))
              ELSE R2
    IN Then(Infallible(R3, Ev("mmio", "subscribe", device.type, id)),
            LAMBDA X : [X EXCEPT !.subs = @ \cup {k}])

\* One `if let Some(..)` / `for .. in ..` body of MMIODeviceManager::restore.
MmioRestoreDevice(R, f, type, st) ==
    LET R1 == KindRestore(R, f, "mmio", type, st)
        R2 == UpdateFromRestoredDevice(R1, f, "mmio", type, st)
    IN restore_helper(R2, f, RestoredDevice(type, st),
                      st.device_state.activated, FALSE, st.device_id,
                      st.transport_state, st.device_info)

RECURSIVE MmioRestoreList(_, _, _, _)
MmioRestoreList(R, f, type, list) ==
    IF list = << >> THEN R
    ELSE MmioRestoreList(MmioRestoreDevice(R, f, type, Head(list)), f, type,
                         Tail(list))

\* vm_resources.set_mmds_basic_config(version, imds_compat, instance_id).
SetMmdsBasicConfig(R, f, reg, m) ==
    Then(Fallible(R, f, Ev(reg, "mmds", "", "config"), "MmdsConfig"),
         LAMBDA X : [X EXCEPT !.mmds =
                       Some([version |-> m.version,
                             imds_compat |-> m.imds_compat])])

\* vm_resources.mmds_or_default().
MmdsOrDefault(R, f, reg) ==
    Then(Fallible(R, f, Ev(reg, "mmds", "", "default"), "MmdsConfig"),
         LAMBDA X : IF IsNone(X.mmds)
                    THEN [X EXCEPT !.mmds = Some(DefaultMmds)] ELSE X)

\* The "Initialize MMDS" statement of MMIODeviceManager::restore.
MmioRestoreMmds(R, f, state) ==
    IF IsSome(state.mmds)
    THEN SetMmdsBasicConfig(R, f, "mmio", state.mmds[1])
    ELSE R

\* Fault seeded for C1: MMIODeviceManager::restore without its vsock stage.
MMIODeviceManager_restore_without_vsock(R, f, state) ==
    LET R1 == MmioRestoreList(R, f, TYPE_BALLOON, state.balloon_device)
        R2 == MmioRestoreList(R1, f, TYPE_BLOCK, state.block_devices)
        R3 == MmioRestoreMmds(R2, f, state)
        R4 == MmioRestoreList(R3, f, TYPE_NET, state.net_devices)
    IN MmioRestoreList(R4, f, TYPE_RNG, state.entropy_device)

\* MMIODeviceManager::restore.
MMIODeviceManager_restore(R, f, state) ==
    LET R1 == MmioRestoreList(R, f, TYPE_BALLOON, state.balloon_device)
        R2 == MmioRestoreList(R1, f, TYPE_BLOCK, state.block_devices)
        R3 == MmioRestoreMmds(R2, f, state)
        R4 == MmioRestoreList(R3, f, TYPE_NET, state.net_devices)
        R5 == MmioRestoreList(R4, f, TYPE_VSOCK, state.vsock_device)
    IN MmioRestoreList(R5, f, TYPE_RNG, state.entropy_device)


\* MsiVectorGroup::restore and VirtioPciDevice::new_from_state: rebuild the
\* transport around the saved vector group, BDF and BAR and, if the saved
\* transport was activated, activate the device again.  Yields the context
\* and the device.
VirtioPciDevice_new_from_state(R, f, device, device_id, transport_state) ==
    LET R1 == Fallible(R, f, Ev("pci", "transport", device.type, device_id),
                       "VirtioPciDevice")
        R2 == IF transport_state.device_activated
              THEN Fallible(R1, f, Ev("pci", "activate", device.type, device_id),
                            "VirtioPciDevice")
              ELSE R1
    IN [R |-> R2,
        device |-> IF transport_state.device_activated
                   THEN Activated(device) ELSE device]

\* Fault seeded for C2: restore_pci_device taking the next free BDF of the
\* allocator, as attach_pci_virtio_device does, instead of the saved one.
restore_pci_device_fresh_bdf(R, f, device, device_id, transport_state) ==
    LET k == << device.type, device_id >>
        t == VirtioPciDevice_new_from_state(R, f, device, device_id,
                                            transport_state)
        R2 == Then(Fallible(t.R, f, Ev("pci", "pci_bus", device.type, device_id),
                            "PciDeviceError"),
                   LAMBDA X :
                     [X EXCEPT !.alloc.bdf = @ + 1,
                               !.pci_bus = @ \cup
                                 { [dev |-> X.alloc.bdf,
                                    type |-> device.type, id |-> device_id] },
                               !.pci_devices = Insert(@, k,
                                 [device |-> t.device,
                                  pci_device_bdf |-> X.alloc.bdf,
                                  bar_addr |-> transport_state.bar_addr,
                                  msix_vectors |-> transport_state.msi_vector_group])])
        R3 == Then(Fallible(R2, f, Ev("pci", "register", device.type, device_id),
                            "Bus"),
                   LAMBDA X :
                     [X EXCEPT !.mmio_bus = @ \cup
                                 { [class |-> "mmio64",
                                    addr |-> transport_state.bar_addr,
                                    type |-> device.type, id |-> device_id] }])
        R4 == Fallible(R3, f, Ev("pci", "ioevent", device.type, device_id),
                       "VirtioPciDevice")
    IN Then(Infallible(R4, Ev("pci", "subscribe", device.type, device_id)),
            LAMBDA X : [X EXCEPT !.subs = @ \cup {k}])

\* Fault seeded for C34: restore_pci_device subscribing the device before its
\* notification ioeventfds are registered.
restore_pci_device_subscribing_before_ioevent(R, f, device, device_id, transport_state) ==
    LET k == << device.type, device_id >>
        t == VirtioPciDevice_new_from_state(R, f, device, device_id,
                                            transport_state)
        R2 == Then(Fallible(t.R, f, Ev("pci", "pci_bus", device.type, device_id),
                            "PciDeviceError"),
                   LAMBDA X :
                     [X EXCEPT !.pci_bus = @ \cup
                                 { [dev |-> transport_state.pci_device_bdf,
                                    type |-> device.type, id |-> device_id] },
                               !.pci_devices = Insert(@, k,
                                 [device |-> t.device,
                                  pci_device_bdf |-> transport_state.pci_device_bdf,
                                  bar_addr |-> transport_state.bar_addr,
                                  msix_vectors |-> transport_state.msi_vector_group])])
        R3 == Then(Fallible(R2, f, Ev("pci", "register", device.type, device_id),
                            "Bus"),
                   LAMBDA X :
                     [X EXCEPT !.mmio_bus = @ \cup
                                 { [class |-> "mmio64",
                                    addr |-> transport_state.bar_addr,
                                    type |-> device.type, id |-> device_id] }])
        R4 == Then(Infallible(R3, Ev("pci", "subscribe", device.type, device_id)),
                   LAMBDA X : [X EXCEPT !.subs = @ \cup {k}])
    IN Fallible(R4, f, Ev("pci", "ioevent", device.type, device_id),
                "VirtioPciDevice")

\* PciDevices::restore_pci_device ("register" is register_bars_with_bus,
\* "ioevent" is register_notification_ioevent).
restore_pci_device(R, f, device, device_id, transport_state) ==
    LET k == << device.type, device_id >>
        t == VirtioPciDevice_new_from_state(R, f, device, device_id,
                                            transport_state)
        R2 == Then(Fallible(t.R, f, Ev("pci", "pci_bus", device.type, device_id),
                            "PciDeviceError"),
                   LAMBDA X :
                     [X EXCEPT !.pci_bus = @ \cup
                                 { [dev |-> transport_state.pci_device_bdf,
                                    type |-> device.type, id |-> device_id] },
                               !.pci_devices = Insert(@, k,
                                 [device |-> t.device,
                                  pci_device_bdf |-> transport_state.pci_device_bdf,
                                  bar_addr |-> transport_state.bar_addr,
                                  msix_vectors |-> transport_state.msi_vector_group])])
        R3 == Then(Fallible(R2, f, Ev("pci", "register", device.type, device_id),
                            "Bus"),
                   LAMBDA X :
                     [X EXCEPT !.mmio_bus = @ \cup
                                 { [class |-> "mmio64",
                                    addr |-> transport_state.bar_addr,
                                    type |-> device.type, id |-> device_id] }])
        R4 == Fallible(R3, f, Ev("pci", "ioevent", device.type, device_id),
                       "VirtioPciDevice")
    IN Then(Infallible(R4, Ev("pci", "subscribe", device.type, device_id)),
            LAMBDA X : [X EXCEPT !.subs = @ \cup {k}])

\* One `if let Some(..)` / `for .. in ..` body of PciDevices::restore: every
\* call is unwrapped.
PciRestoreDevice(R, f, type, st) ==
    LET R1 == Unwrapped(KindRestore(R, f, "pci", type, st))
        R2 == Unwrapped(UpdateFromRestoredDevice(R1, f, "pci", type, st))
    IN IF R.status # "ok" THEN R
       ELSE Unwrapped(restore_pci_device(R2, f, RestoredDevice(type, st),
                                         st.device_id, st.transport_state))

RECURSIVE PciRestoreList(_, _, _, _)
PciRestoreList(R, f, type, list) ==
    IF list = << >> THEN R
    ELSE PciRestoreList(PciRestoreDevice(R, f, type, Head(list)), f, type,
                        Tail(list))

\* net_devices.iter().any(|dev| dev.device_state.mmds_ns.is_some()).
AnyNetHasMmdsNs(net_devices) ==
    \E i \in 1..Len(net_devices) : net_devices[i].device_state.mmds_ns

\* The "Initialize MMDS" statement of PciDevices::restore.
PciRestoreMmds(R, f, state) ==
    IF R.status # "ok" THEN R
    ELSE IF IsSome(state.mmds)
    THEN Unwrapped(SetMmdsBasicConfig(R, f, "pci", state.mmds[1]))
    ELSE IF AnyNetHasMmdsNs(state.net_devices)
         THEN MmdsOrDefault(R, f, "pci")
         ELSE R

\* PciDevices::attach_pci_segment inside restore.
RestoreSegment(R, f) ==
    Then(Fallible(R, f, Ev("pci", "segment", "", ""), "PciRoot"),
         LAMBDA X : [X EXCEPT !.pci_segment = TRUE])

\* Fault seeded for C3: PciDevices::restore with the MMDS statement moved to
\* the front of the device stages.
PciDevices_restore_mmds_first(R, f, state) ==
    IF ~state.pci_enabled THEN R
    ELSE LET R0 == RestoreSegment(R, f)
             R1 == PciRestoreMmds(R0, f, state)
             R2 == PciRestoreList(R1, f, TYPE_BALLOON, state.balloon_device)
             R3 == PciRestoreList(R2, f, TYPE_BLOCK, state.block_devices)
             R4 == PciRestoreList(R3, f, TYPE_NET, state.net_devices)
             R5 == PciRestoreList(R4, f, TYPE_VSOCK, state.vsock_device)
         IN PciRestoreList(R5, f, TYPE_RNG, state.entropy_device)

\* Fault seeded for C18: PciDevices::restore without the early return on a
\* disabled section.
PciDevices_restore_ignoring_flag(R, f, state) ==
    LET R0 == RestoreSegment(R, f)
        R1 == PciRestoreList(R0, f, TYPE_BALLOON, state.balloon_device)
        R2 == PciRestoreList(R1, f, TYPE_BLOCK, state.block_devices)
        R3 == PciRestoreMmds(R2, f, state)
        R4 == PciRestoreList(R3, f, TYPE_NET, state.net_devices)
        R5 == PciRestoreList(R4, f, TYPE_VSOCK, state.vsock_device)
    IN PciRestoreList(R5, f, TYPE_RNG, state.entropy_device)

\* PciDevices::restore.
PciDevices_restore(R, f, state) ==
    IF ~state.pci_enabled THEN R
    ELSE LET R0 == RestoreSegment(R, f)
             R1 == PciRestoreList(R0, f, TYPE_BALLOON, state.balloon_device)
             R2 == PciRestoreList(R1, f, TYPE_BLOCK, state.block_devices)
             R3 == PciRestoreMmds(R2, f, state)
             R4 == PciRestoreList(R3, f, TYPE_NET, state.net_devices)
             R5 == PciRestoreList(R4, f, TYPE_VSOCK, state.vsock_device)
         IN PciRestoreList(R5, f, TYPE_RNG, state.entropy_device)

\* VmGenId::restore: from_parts(state.addr, state.gsi).
VmGenId_restore(state) == [gsi |-> state.gsi, guest_address |-> state.addr]

\* Fault seeded for C20: the generation ID written to guest memory while the
\* device is rebuilt from its saved state.
ACPIDeviceManager_restore_writing_gen_id(R, f, state) ==
    IF IsSome(state.vmgenid)
    THEN Then(Fallible(R, f, Ev("acpi", "acpi", "", "vmgenid"), "AcpiRestore"),
              LAMBDA X : Infallible(
                  [X EXCEPT !.acpi_devices.vmgenid =
                      Some(VmGenId_restore(state.vmgenid[1]))],
                  Ev("acpi", "mem_write", "", "vmgenid")))
    ELSE R

\* ACPIDeviceManager::restore.
ACPIDeviceManager_restore(R, f, state) ==
    IF IsSome(state.vmgenid)
    THEN Then(Fallible(R, f, Ev("acpi", "acpi", "", "vmgenid"), "AcpiRestore"),
              LAMBDA X : [X EXCEPT !.acpi_devices.vmgenid =
                            Some(VmGenId_restore(state.vmgenid[1]))])
    ELSE R

\* Fault seeded for C22: the interrupt event triggered twice by one
\* notification.
NotifyVmGenId_triggering_twice(R, f) ==
    IF R.status = "ok" /\ IsSome(R.acpi_devices.vmgenid)
    THEN Infallible(Infallible(Fallible(R, f,
                                        Ev("acpi", "notify", "", "vmgenid"),
                                        "VmGenidUpdate"),
                               Ev("acpi", "irq", "", "vmgenid")),
                    Ev("acpi", "irq", "", "vmgenid"))
    ELSE R

\* Fault seeded for C23: a failed notification logged and dropped instead of
\* returned.
NotifyVmGenId_swallowing_error(R, f) ==
    IF R.status = "ok" /\ IsSome(R.acpi_devices.vmgenid)
    THEN LET R1 == Fallible(R, f, Ev("acpi", "notify", "", "vmgenid"),
                            "VmGenidUpdate")
         IN IF R1.status = "ok"
            THEN Infallible(R1, Ev("acpi", "irq", "", "vmgenid"))
            ELSE [R1 EXCEPT !.status = "ok", !.err = ""]
    ELSE R

\* acpi_devices.notify_vmgenid()?: VmGenId::do_post_restore triggers the
\* interrupt event, which the guest sees as an interrupt on the device's GSI.
NotifyVmGenId(R, f) ==
    IF R.status = "ok" /\ IsSome(R.acpi_devices.vmgenid)
    THEN Infallible(Fallible(R, f, Ev("acpi", "notify", "", "vmgenid"),
                             "VmGenidUpdate"),
                    Ev("acpi", "irq", "", "vmgenid"))
    ELSE R

\* Fault seeded for C17: DeviceManager::restore with the PCI registry restored
\* before the ACPI devices.
DeviceManager_restore_pci_before_acpi(f, state) ==
    LET R0 == Fallible(NewRestore, f, Ev("legacy", "legacy", "", ""),
                       "DeviceManager")
        R1 == MMIODeviceManager_restore(R0, f, state.mmio_state)
        R2 == PciDevices_restore(R1, f, state.pci_state)
        R3 == ACPIDeviceManager_restore(R2, f, state.acpi_state)
        R4 == NotifyVmGenId(R3, f)
    IN Fallible(R4, f, Ev("legacy", "serial", "", ""), "SerialRestore")

\* DeviceManager::restore (x86_64).
DeviceManager_restore(f, state) ==
    LET R0 == Fallible(NewRestore, f, Ev("legacy", "legacy", "", ""),
                       "DeviceManager")
        R1 == MMIODeviceManager_restore(R0, f, state.mmio_state)
        R2 == ACPIDeviceManager_restore(R1, f, state.acpi_state)
        R3 == NotifyVmGenId(R2, f)
        R4 == PciDevices_restore(R3, f, state.pci_state)
    IN Fallible(R4, f, Ev("legacy", "serial", "", ""), "SerialRestore")

\* What the caller of DeviceManager::restore gets: Ok(DeviceManager) only if
\* every step returned Ok; otherwise the objects under construction are
\* dropped.
Outcome(R, input) ==
    [status |-> R.status, err |-> R.err, hit |-> R.hit,
     fail_type |-> R.fail_type, fail_step |-> R.fail_step, log |-> R.log,
     input |-> input,
     dm |-> IF R.status = "ok"
            THEN Some([mmio_devices |-> R.mmio_devices,
                       pci_devices |-> R.pci_devices,
                       pci_segment |-> R.pci_segment,
                       acpi_devices |-> R.acpi_devices])
            ELSE None,
     mmds |-> R.mmds, table |-> R.table, subs |-> R.subs,
     net_args |-> R.net_args, mmio_bus |-> R.mmio_bus, pci_bus |-> R.pci_bus,
     alloc |-> R.alloc]

\* A snapshot written by a version that did not persist MmdsState is the
\* same document without the mmds records.
WithoutMmdsState(state) ==
    [state EXCEPT !.mmio_state.mmds = None, !.pci_state.mmds = None]

\* The results of restoring the saved document into a fresh Vm under fault f:
\* the document as written, or as an older version without the mmds record.
RestoreOutcomes(f) ==
    { Outcome(DeviceManager_restore(f, input), input) :
        input \in { snap[1], WithoutMmdsState(snap[1]) } }

\* DeviceManager::restore when every call into the host succeeds.
restore ==
    /\ phase = "saved"
    /\ rst' \in RestoreOutcomes(NoFault)
    /\ phase' = "restored"
    /\ call' = NoCall
    /\ UNCHANGED << alloc, mmio_bus, pci_bus, pci_segment, mmio_devices,
                    pci_devices, acpi_devices, mmds, snap, save_obs >>
    /\ UNCHANGED << i8042, io >>

\* The saved document with the PCI section marked disabled, its entries
\* left in place.
WithPciDisabled(state) == [state EXCEPT !.pci_state.pci_enabled = FALSE]

\* DeviceManager::restore of a document whose PCI section holds entries and
\* is marked disabled.
restore_pci_disabled ==
    /\ phase = "saved"
    /\ snap[1].pci_state.pci_enabled
    /\ rst' = Outcome(DeviceManager_restore(NoFault, WithPciDisabled(snap[1])),
                      WithPciDisabled(snap[1]))
    /\ phase' = "restored"
    /\ call' = NoCall
    /\ UNCHANGED << alloc, mmio_bus, pci_bus, pci_segment, mmio_devices,
                    pci_devices, acpi_devices, mmds, snap, save_obs >>
    /\ UNCHANGED << i8042, io >>

\* DeviceManager::restore when one call into the host fails.
restore_with_fault ==
    /\ phase = "saved"
    /\ \E f \in Faults \ {NoFault} : rst' \in RestoreOutcomes(f)
    /\ phase' = "restored"
    /\ call' = NoCall
    /\ UNCHANGED << alloc, mmio_bus, pci_bus, pci_segment, mmio_devices,
                    pci_devices, acpi_devices, mmds, snap, save_obs >>
    /\ UNCHANGED << i8042, io >>

Next ==
    \/ attach_virtio_device
    \/ enable_pci
    \/ attach_vmgenid_device
    \/ guest_activate
    \/ save
    \/ restore

Spec == Init /\ [][Next]_vars

\* The boot of a microVM with both ACPI platform devices.
NextBoot ==
    \/ attach_vmgenid_device
    \/ attach_vmclock_device
    \/ enable_pci
    \/ attach_virtio_device
    \/ attach_boot_timer_device
    \/ guest_activate

SpecBoot == Init /\ [][NextBoot]_vars

\* The device manager of a PCI microVM whose attaches may fail in the host.
NextAttach ==
    \/ attach_pci_segment
    \/ call_attach_pci_virtio_device
    \/ save
    \/ restore

SpecAttach == Init /\ [][NextAttach]_vars

\* The same system with host faults during restore.
NextFault ==
    \/ Next
    \/ restore_with_fault

SpecFault == Init /\ [][NextFault]_vars

\* The device manager under any caller: attach operations in any order, the
\* transport switched at any time, then save and restore.
NextApi ==
    \/ attach_virtio_device
    \/ direct_attach_mmio_virtio_device
    \/ attach_boot_timer_device
    \/ attach_pci_segment
    \/ attach_vmgenid_device
    \/ guest_activate
    \/ save
    \/ restore
    \/ restore_pci_disabled

SpecApi == Init /\ [][NextApi]_vars

\* The device manager under any caller that attaches, switches the transport
\* and looks devices up.
NextLookup ==
    \/ attach_virtio_device
    \/ direct_attach_mmio_virtio_device
    \/ attach_boot_timer_device
    \/ attach_pci_segment
    \/ call_get_virtio_device
    \/ call_with_virtio_device_with_id

SpecLookup == Init /\ [][NextLookup]_vars

---------------------------------------------------------------------------
\* Locking.  Every transport (MmioTransport, VirtioPciDevice) and every virtio
\* device sits behind its own Mutex; an operation is described by the
\* acquisitions and releases it makes, in program order.

\* The lock of the transport / of the virtio device registered under key k
\* of registry reg ("mmio" or "pci"), and the lock of the PCI bus.
Acq(kind, reg, k) == [act |-> "acq", kind |-> kind, reg |-> reg, key |-> k]
Rel(kind, reg, k) == [act |-> "rel", kind |-> kind, reg |-> reg, key |-> k]
LockOf(e) == [kind |-> e.kind, reg |-> e.reg, key |-> e.key]
NoKey == << "", "" >>

\* let guard = transport.lock(); transport.device().lock() ... : the device
\* is locked while the transport's guard lives, the guards die in reverse.
TransportThenDevice(reg, k) ==
    << Acq("transport", reg, k), Acq("device", reg, k),
       Rel("device", reg, k), Rel("transport", reg, k) >>

\* let device = transport.lock().device(): the transport's guard is a
\* temporary of the statement, the device is locked after it died.
TransportReleasedThenDevice(reg, k) ==
    << Acq("transport", reg, k), Rel("transport", reg, k),
       Acq("device", reg, k), Rel("device", reg, k) >>

\* The traces of seq, one key after the other.
RECURSIVE ForEachKey(_, _, _)
ForEachKey(Op(_, _), reg, keys) ==
    IF keys = << >> THEN << >>
    ELSE Op(reg, Head(keys)) \o ForEachKey(Op, reg, Tail(keys))

\* Mutant of KickLocks: the device is locked, then its transport.
KickLocks_device_first(reg, k) == << Acq("device", reg, k), Acq("transport", reg, k), Rel("transport", reg, k), Rel("device", reg, k) >>

\* kick_virtio_devices, one device.
KickLocks(reg, k) == TransportThenDevice(reg, k)

\* mark_virtio_queue_memory_dirty, one device: the MMIO closure keeps the
\* transport locked around do_mark_virtio_queue_memory_dirty, the PCI loop
\* does not.
MarkDirtyLocks(reg, k) ==
    IF reg = "mmio" THEN TransportThenDevice(reg, k)
    ELSE TransportReleasedThenDevice(reg, k)

\* save, one device, of either registry.
SaveLocks(reg, k) == TransportThenDevice(reg, k)

\* get_virtio_device of a registered key.
GetLocks(reg, k) == << Acq("transport", reg, k), Rel("transport", reg, k) >>

\* with_virtio_device_with_id of a registered key: the closure runs under the
\* device's lock.
WithLocks(reg, k) ==
    GetLocks(reg, k) \o << Acq("device", reg, k), Rel("device", reg, k) >>

\* attach_pci_virtio_device: device_type(), queues(), add_device under the
\* bus lock, register_bars_with_bus, register_notification_ioevent.
AttachPciLocks(reg, k) ==
    << Acq("device", reg, k), Rel("device", reg, k),
       Acq("device", reg, k), Rel("device", reg, k),
       Acq("pci_bus", "pci", NoKey), Rel("pci_bus", "pci", NoKey),
       Acq("transport", reg, k), Rel("transport", reg, k),
       Acq("transport", reg, k), Rel("transport", reg, k) >>

\* restore_pci_device: as the attach, without queues().
RestorePciLocks(reg, k) ==
    << Acq("device", reg, k), Rel("device", reg, k),
       Acq("pci_bus", "pci", NoKey), Rel("pci_bus", "pci", NoKey),
       Acq("transport", reg, k), Rel("transport", reg, k),
       Acq("transport", reg, k), Rel("transport", reg, k) >>

\* restore_helper of the MMIO restore: a device the snapshot records as
\* activated is locked for activate().
RestoreMmioLocks(reg, k, activated) ==
    IF activated
    THEN << Acq("device", reg, k), Rel("device", reg, k) >>
    ELSE << >>

\* One access of the guest to a device through a bus: the bus hands out
\* the transport, the transport locks its device.
DispatchLocks(reg, k) == TransportThenDevice(reg, k)

\* The operations that go over the registries, and those that take a key.
RegistryLockOps ==
    { "kick_virtio_devices", "mark_virtio_queue_memory_dirty", "save",
      "restore" }
KeyLockOps ==
    { "get_virtio_device", "with_virtio_device_with_id",
      "attach_pci_virtio_device" }

\* The trace of operation op on the registries as they are; mo and po are
\* the orders in which the two HashMaps are iterated, active the MMIO
\* devices a snapshot records as activated, k the key of a lookup or an
\* attach.
OperationLocks(op, mo, po, active, k) ==
    CASE op = "kick_virtio_devices" ->
           ForEachKey(KickLocks, "mmio", mo) \o ForEachKey(KickLocks, "pci", po)
      [] op = "mark_virtio_queue_memory_dirty" ->
           ForEachKey(MarkDirtyLocks, "mmio", mo)
              \o ForEachKey(MarkDirtyLocks, "pci", po)
      [] op = "save" ->
           ForEachKey(SaveLocks, "mmio", mo)
              \o (IF pci_segment THEN ForEachKey(SaveLocks, "pci", po)
                  ELSE << >>)
      [] op = "restore" ->
           LET RestoreOne(reg, key) == RestoreMmioLocks(reg, key, key \in active)
           IN ForEachKey(RestoreOne, "mmio", mo)
                 \o ForEachKey(RestorePciLocks, "pci", po)
      [] op = "get_virtio_device" ->
           IF pci_segment
           THEN (IF k \in DOMAIN pci_devices THEN GetLocks("pci", k)
                 ELSE << >>)
           ELSE (IF k \in DOMAIN mmio_devices THEN GetLocks("mmio", k)
                 ELSE << >>)
      [] op = "with_virtio_device_with_id" ->
           IF pci_segment
           THEN (IF k \in DOMAIN pci_devices THEN WithLocks("pci", k)
                 ELSE << >>)
           ELSE (IF k \in DOMAIN mmio_devices THEN WithLocks("mmio", k)
                 ELSE << >>)
      [] op = "attach_pci_virtio_device" -> AttachPciLocks("pci", k)

\* An operation runs and the locks it took are recorded.
call_operation_locks ==
    /\ phase = "boot"
    /\ \/ \E op \in RegistryLockOps, mo \in Perms(DOMAIN mmio_devices),
             po \in Perms(DOMAIN pci_devices),
             active \in SUBSET DOMAIN mmio_devices :
             /\ op # "restore" => active = {}
             /\ call' = [NoCall EXCEPT
                           !.op = op, !.kind = "locks", !.status = "ok",
                           !.log = OperationLocks(op, mo, po, active, NoKey)]
       \/ \E op \in KeyLockOps, k \in QueryKeys :
             call' = [NoCall EXCEPT
                        !.op = op, !.type = k[1], !.id = k[2],
                        !.kind = "locks", !.status = "ok",
                        !.log = OperationLocks(op, << >>, << >>, {}, k)]
    /\ UNCHANGED << phase, alloc, mmio_bus, pci_bus, pci_segment, mmio_devices,
                    pci_devices, acpi_devices, mmds, snap, save_obs, rst >>
    /\ UNCHANGED << i8042, io >>

\* The device manager under any caller that attaches devices and runs the
\* operations that take device locks.
NextLocks ==
    \/ attach_pci_segment
    \/ attach_virtio_device
    \/ call_operation_locks

SpecLocks == Init /\ [][NextLocks]_vars

---------------------------------------------------------------------------
\* The i8042 device under its callers: the guest's port accesses and the
\* VMM's key events.

\* The largest value the tail counter is driven to.
MaxBtail == 4

\* The port accesses the guest makes.  The status port gets the
\* five commands and 0xFF, which is none; the data port gets 0x52 (the byte
\* of test_i8042_commands) and 0 (which clears CB_KBD_INT in the control
\* register); offset 1 is no port of the device, and a buffer of two bytes
\* is no byte-wide access.
StatusBytes ==
    { CMD_READ_CTR, CMD_WRITE_CTR, CMD_READ_OUTP, CMD_WRITE_OUTP,
      CMD_RESET_CPU, 255 }
PayloadBytes == { 0, 82 }
Writes ==
    { << OFS_STATUS, << b >> >> : b \in StatusBytes }
       \cup { << OFS_DATA, << b >> >> : b \in PayloadBytes }
       \cup { << 1, << CMD_RESET_CPU >> >>,
              << OFS_STATUS, << CMD_RESET_CPU, CMD_RESET_CPU >> >> }
Offsets == { OFS_DATA, OFS_STATUS, 1 }
ReadBuffers == { << 1 >>, << 1, 2 >> }

\* The guest reads a port.
call_bus_read ==
    /\ \E offset \in Offsets, data \in ReadBuffers, fail \in 0..1 :
          LET r == bus_read(i8042, offset, data, fail) IN
          /\ i8042' = r.d
          /\ io' = r.e
    /\ UNCHANGED << phase, alloc, mmio_bus, pci_bus, pci_segment, mmio_devices,
                    pci_devices, acpi_devices, mmds, snap, save_obs, rst,
                    call >>

\* The guest writes a port.
call_bus_write ==
    /\ \E w \in Writes, fail \in 0..1, reset_ok \in BOOLEAN :
          LET r == bus_write(i8042, w[1], w[2], fail, reset_ok) IN
          /\ i8042' = r.d
          /\ io' = r.e
    /\ UNCHANGED << phase, alloc, mmio_bus, pci_bus, pci_segment, mmio_devices,
                    pci_devices, acpi_devices, mmds, snap, save_obs, rst,
                    call >>

\* The VMM signals ctrl-alt-del; every interrupt is delivered, or the one of
\* the last key is not.
call_trigger_ctrl_alt_del ==
    /\ i8042.btail + 4 <= MaxBtail
    /\ \E fail \in { 0, 3 } :
          LET r == trigger_ctrl_alt_del(
                      Dev(i8042, [NoIo EXCEPT !.op = "trigger_ctrl_alt_del"]),
                      fail) IN
          /\ i8042' = r.d
          /\ io' = r.e
    /\ UNCHANGED << phase, alloc, mmio_bus, pci_bus, pci_segment, mmio_devices,
                    pci_devices, acpi_devices, mmds, snap, save_obs, rst,
                    call >>

NextI8042 ==
    \/ call_bus_read
    \/ call_bus_write
    \/ call_trigger_ctrl_alt_del

SpecI8042 == Init /\ [][NextI8042]_vars

---------------------------------------------------------------------------
\* The buffer of the i8042 device driven directly, as test_i8042_buffer does.

\* The largest value the tail counter is driven to: beyond BUF_SIZE, so that
\* the index of the ring wraps.
MaxBufTail == 18

\* The n-th byte pushed since the last flush is n: no two bytes in the
\* buffer are equal, and none equals the 0 the buffer is made with.
NextPushedByte(d) == (d.btail + 1) % 256

\* push_byte is called; on a full buffer it is called whatever the counter.
call_push_byte ==
    /\ i8042.btail < MaxBufTail \/ buf_len(i8042) = BUF_SIZE
    /\ LET byte == NextPushedByte(i8042)
           r == push_byte(Dev(i8042, [NoIo EXCEPT !.op = "push_byte",
                                                  !.data = << byte >>]),
                          byte) IN
       /\ i8042' = r.d
       /\ io' = r.e
    /\ UNCHANGED << phase, alloc, mmio_bus, pci_bus, pci_segment, mmio_devices,
                    pci_devices, acpi_devices, mmds, snap, save_obs, rst,
                    call >>

\* pop_byte is called.
call_pop_byte ==
    /\ LET r == pop_byte(Dev(i8042, [NoIo EXCEPT !.op = "pop_byte"])) IN
       /\ i8042' = r.d
       /\ io' = r.e
    /\ UNCHANGED << phase, alloc, mmio_bus, pci_bus, pci_segment, mmio_devices,
                    pci_devices, acpi_devices, mmds, snap, save_obs, rst,
                    call >>

\* flush_buf is called.
call_flush_buf ==
    /\ i8042' = flush_buf(i8042)
    /\ io' = [NoIo EXCEPT !.op = "flush_buf"]
    /\ UNCHANGED << phase, alloc, mmio_bus, pci_bus, pci_segment, mmio_devices,
                    pci_devices, acpi_devices, mmds, snap, save_obs, rst,
                    call >>

\* The keys of the device, and those of two bytes.
ScanCodes == { KEY_CTRL, KEY_ALT, KEY_DEL }
ExtendedKeys == { key \in ScanCodes : key \div 256 # 0 }

\* trigger_key is called with a key of two bytes; when the key has no room
\* it is called whatever the counter.
call_trigger_key ==
    /\ \E key \in ExtendedKeys, fail \in 0..1 :
          /\ \/ i8042.btail + 2 <= MaxBufTail
             \/ BUF_SIZE - buf_len(i8042) < (IF key \div 256 # 0 THEN 2 ELSE 1)
          /\ LET r == trigger_key(Dev(i8042, [NoIo EXCEPT !.op = "trigger_key",
                                                          !.key = key]),
                                  key, fail) IN
             /\ i8042' = r.d
             /\ io' = r.e
    /\ UNCHANGED << phase, alloc, mmio_bus, pci_bus, pci_segment, mmio_devices,
                    pci_devices, acpi_devices, mmds, snap, save_obs, rst,
                    call >>

\* trigger_ctrl_alt_del is called on a buffer of any length; the write to
\* kbd_interrupt_evt that fails, if one does, is the last.
call_trigger_ctrl_alt_del_on_any_buffer ==
    /\ i8042.btail + 4 <= MaxBufTail \/ BUF_SIZE - buf_len(i8042) < 4
    /\ \E fail \in { 0, 3 } :
          LET r == trigger_ctrl_alt_del(
                      Dev(i8042, [NoIo EXCEPT !.op = "trigger_ctrl_alt_del"]),
                      fail) IN
          /\ i8042' = r.d
          /\ io' = r.e
    /\ UNCHANGED << phase, alloc, mmio_bus, pci_bus, pci_segment, mmio_devices,
                    pci_devices, acpi_devices, mmds, snap, save_obs, rst,
                    call >>

\* The keyboard side of the device, as test_i8042_kbd drives it.
NextI8042Keys ==
    \/ call_trigger_key
    \/ call_trigger_ctrl_alt_del_on_any_buffer
    \/ call_pop_byte

SpecI8042Keys == Init /\ [][NextI8042Keys]_vars

NextI8042Buf ==
    \/ call_push_byte
    \/ call_pop_byte
    \/ call_flush_buf

SpecI8042Buf == Init /\ [][NextI8042Buf]_vars

---------------------------------------------------------------------------
\* Properties.

\* The elements of a sequence (an Option is a sequence of length <= 1).
SeqSet(q) == { q[i] : i \in 1..Len(q) }

\* The entries a section of the snapshot holds for one device type.
SectionList(s, type) ==
    CASE type = TYPE_BALLOON -> s.balloon_device
      [] type = TYPE_BLOCK -> s.block_devices
      [] type = TYPE_NET -> s.net_devices
      [] type = TYPE_VSOCK -> s.vsock_device
      [] OTHER -> s.entropy_device

\* restore has returned Ok(DeviceManager).
RestoreOk == phase = "restored" /\ rst.status = "ok"

\* restore has returned Ok from the very document save produced.
RestoredFromSave == RestoreOk /\ rst.input = snap[1]

\* The keys of a registry / those of its devices save does not skip.
Keys(devs) == DOMAIN devs
SavedKeys(devs) == { k \in DOMAIN devs : ~devs[k].device.vhost }

SameFlags(restored, live) ==
    \A k \in DOMAIN restored \cap DOMAIN live :
        restored[k].device.activated = live[k].device.activated

\* C1 as stated: after save then restore the key set of each registry equals
\* the key set held before save, and every device has its activation flag.
C1_RoundTripKeepsAllKeys ==
    RestoredFromSave =>
        /\ Keys(rst.dm[1].mmio_devices) = Keys(mmio_devices)
        /\ Keys(rst.dm[1].pci_devices) = Keys(pci_devices)
        /\ SameFlags(rst.dm[1].mmio_devices, mmio_devices)
        /\ SameFlags(rst.dm[1].pci_devices, pci_devices)

\* C1 amended: after save then restore the key set of each registry equals
\* the key set held before save less the vhost-user-backed block devices
\* (which save skips), and every restored device has the activation flag it
\* had when saved.
C1_RoundTripKeepsSavedKeys ==
    RestoredFromSave =>
        /\ Keys(rst.dm[1].mmio_devices) = SavedKeys(mmio_devices)
        /\ Keys(rst.dm[1].pci_devices) = SavedKeys(pci_devices)
        /\ SameFlags(rst.dm[1].mmio_devices, mmio_devices)
        /\ SameFlags(rst.dm[1].pci_devices, pci_devices)

\* A round trip of an MMIO registry holding a vhost-user block device and an
\* activated device that is restored.
C1_Witness ==
    /\ RestoredFromSave
    /\ \E k \in DOMAIN mmio_devices : mmio_devices[k].device.vhost
    /\ \E k \in DOMAIN rst.dm[1].mmio_devices :
          rst.dm[1].mmio_devices[k].device.activated

\* C2: a successful restore gives every device the resources its snapshot
\* entry records (MMIO window and interrupt line; PCI BDF, BAR and MSI-X
\* vector group; VMGenID interrupt line and guest address), puts it on the
\* bus at that place, and takes nothing from the resource allocator.
C2_RestoreBindsSavedResources ==
    RestoreOk =>
        /\ rst.alloc = NewAllocator
        /\ \A type \in DeviceTypes :
             /\ \A st \in SeqSet(SectionList(rst.input.mmio_state, type)) :
                  LET k == << type, st.device_id >> IN
                  /\ k \in DOMAIN rst.dm[1].mmio_devices
                  /\ rst.dm[1].mmio_devices[k].resources = st.device_info
                  /\ [class |-> "mmio32", addr |-> st.device_info.addr,
                      type |-> type, id |-> st.device_id] \in rst.mmio_bus
             /\ \A st \in SeqSet(SectionList(rst.input.pci_state, type)) :
                  LET k == << type, st.device_id >>
                      t == st.transport_state
                  IN
                  /\ k \in DOMAIN rst.dm[1].pci_devices
                  /\ rst.dm[1].pci_devices[k].pci_device_bdf = t.pci_device_bdf
                  /\ rst.dm[1].pci_devices[k].bar_addr = t.bar_addr
                  /\ rst.dm[1].pci_devices[k].msix_vectors = t.msi_vector_group
                  /\ [dev |-> t.pci_device_bdf, type |-> type,
                      id |-> st.device_id] \in rst.pci_bus
                  /\ [class |-> "mmio64", addr |-> t.bar_addr, type |-> type,
                      id |-> st.device_id] \in rst.mmio_bus
        /\ \A g \in SeqSet(rst.input.acpi_state.vmgenid) :
             rst.dm[1].acpi_devices.vmgenid =
                 Some([gsi |-> g.gsi, guest_address |-> g.addr])

\* A restored VMGenID together with a restored PCI device whose BDF, BAR and
\* vector base are not the first the allocator would hand out.
C2_Witness ==
    /\ RestoreOk
    /\ IsSome(rst.dm[1].acpi_devices.vmgenid)
    /\ \E k \in DOMAIN rst.dm[1].pci_devices :
          /\ rst.dm[1].pci_devices[k].pci_device_bdf = 1
          /\ rst.dm[1].pci_devices[k].bar_addr = 1
          /\ rst.dm[1].pci_devices[k].msix_vectors.base > 0

\* Position of a restore-log entry in the order balloon, block, mmds, net,
\* vsock, entropy.
Rank(ev) ==
    CASE ev.step = "mmds" -> 3
      [] ev.type = TYPE_BALLOON -> 1
      [] ev.type = TYPE_BLOCK -> 2
      [] ev.type = TYPE_NET -> 4
      [] ev.type = TYPE_VSOCK -> 5
      [] OTHER -> 6

IsStageEvent(ev) == ev.step = "mmds" \/ ev.type \in DeviceTypes

\* C3: in each registry the calls of restore come in the order balloon,
\* block, mmds configuration, net, vsock, entropy, and every network device
\* is constructed with the Mmds of the resource table as the mmds step left it.
C3_RestoreStageOrder ==
    phase = "restored" =>
        /\ \A i, j \in 1..Len(rst.log) :
             ( /\ i < j
               /\ rst.log[i].reg = rst.log[j].reg
               /\ rst.log[i].reg \in {"mmio", "pci"}
               /\ IsStageEvent(rst.log[i])
               /\ IsStageEvent(rst.log[j]) )
             => Rank(rst.log[i]) <= Rank(rst.log[j])
        /\ \A k \in DOMAIN rst.net_args : rst.net_args[k] = rst.mmds

\* A PCI restore that went through a block stage, the mmds configuration and
\* a net stage whose device got the configured Mmds.
C3_Witness ==
    /\ RestoreOk
    /\ \E i, j, k \in 1..Len(rst.log) :
          /\ i < j /\ j < k
          /\ rst.log[i] = Ev("pci", "restore", TYPE_BLOCK, "a")
          /\ rst.log[j] = Ev("pci", "mmds", "", "config")
          /\ rst.log[k].step = "restore" /\ rst.log[k].type = TYPE_NET
          /\ IsSome(rst.net_args[<< TYPE_NET, rst.log[k].id >>])

\* In registry reg, restore of a section without mmds record in which a
\* network device has an MMDS namespace calls mmds_or_default before it
\* constructs the first network device.
DefaultMmdsBeforeNets(reg, section) ==
    ( /\ IsNone(section.mmds)
      /\ AnyNetHasMmdsNs(section.net_devices) )
    => \A i \in 1..Len(rst.log) :
         ( /\ rst.log[i].reg = reg
           /\ rst.log[i].step = "restore"
           /\ rst.log[i].type = TYPE_NET )
         => \E j \in 1..(i - 1) : rst.log[j] = Ev(reg, "mmds", "", "default")

\* C4 as stated: when the section of either registry has no mmds record but
\* a saved network device has an MMDS namespace, restore initialises a
\* default Mmds before it constructs the network devices.
C4_DefaultMmdsInBothRegistries ==
    phase = "restored" =>
        /\ DefaultMmdsBeforeNets("mmio", rst.input.mmio_state)
        /\ DefaultMmdsBeforeNets("pci", rst.input.pci_state)

\* C5: when any step of restore fails, the caller gets no DeviceManager.
C5_FailureReturnsNoDeviceManager ==
    (phase = "restored" /\ rst.hit) =>
        /\ rst.status # "ok"
        /\ IsNone(rst.dm)

\* A restore that failed after it had restored, recorded and subscribed a
\* device.
C5_Witness ==
    /\ phase = "restored"
    /\ rst.hit
    /\ rst.table # {}
    /\ rst.subs # {}
    /\ IsNone(rst.dm)

\* C6 as stated: a failed kind-specific restore, resource-table update or
\* transport registration reaches the caller as an error value naming the
\* kind of the failing device, and never as a panic.
C6_FailuresAreErrorsNamingTheKind ==
    ( /\ phase = "restored"
      /\ rst.hit
      /\ rst.fail_step \in {"restore", "update", "transport", "pci_bus",
                            "register"} )
    => /\ rst.status = "err"
       /\ rst.err = KindError(rst.fail_type)

\* C7: a successful restore activates a device exactly once if its snapshot
\* entry records it activated and not at all otherwise, and the restored
\* device carries the recorded flag.
C7_ActivationReplayedOnce ==
    RestoreOk =>
        \A type \in DeviceTypes :
          /\ \A st \in SeqSet(SectionList(rst.input.mmio_state, type)) :
               LET d == rst.dm[1].mmio_devices[<< type, st.device_id >>].device
                   n == IF st.device_state.activated THEN 1 ELSE 0
               IN /\ d.acts = n
                  /\ d.activated = st.device_state.activated
                  /\ Count(rst.log, Ev("mmio", "activate", type, st.device_id)) = n
          /\ \A st \in SeqSet(SectionList(rst.input.pci_state, type)) :
               LET d == rst.dm[1].pci_devices[<< type, st.device_id >>].device
                   n == IF st.transport_state.device_activated THEN 1 ELSE 0
               IN /\ d.acts = n
                  /\ d.activated = st.transport_state.device_activated
                  /\ Count(rst.log, Ev("pci", "activate", type, st.device_id)) = n

\* An MMIO restore of one device saved activated and one saved inactive.
C7_Witness ==
    /\ RestoreOk
    /\ \E k1, k2 \in DOMAIN rst.dm[1].mmio_devices :
          /\ rst.dm[1].mmio_devices[k1].device.acts = 1
          /\ rst.dm[1].mmio_devices[k2].device.acts = 0

\* The id of the first network device of the list that has an MMDS namespace.
FirstMmdsNet(net_devices) ==
    LET i == CHOOSE i \in 1..Len(net_devices) :
                 /\ net_devices[i].device_state.mmds_ns
                 /\ \A j \in 1..(i - 1) : ~net_devices[j].device_state.mmds_ns
    IN net_devices[i].device_id

MmdsRecordWrittenOnce(section, writes) ==
    /\ Len(writes) <= 1
    /\ IsSome(section.mmds) <=> AnyNetHasMmdsNs(section.net_devices)
    /\ IsSome(section.mmds) <=> Len(writes) = 1
    /\ IsSome(section.mmds) =>
         /\ writes[1] = FirstMmdsNet(section.net_devices)
         /\ section.mmds[1] = [version |-> mmds.version,
                               imds_compat |-> mmds.imds_compat]

\* C8: save assigns the mmds record of a section at most once, from the
\* first network device with an MMDS namespace it visits and with the version
\* and compatibility flag of the shared Mmds; without such a device the
\* record is absent.
C8_MmdsRecordWrittenOnce ==
    save_obs.completed =>
        /\ MmdsRecordWrittenOnce(snap[1].mmio_state, save_obs.mmio_mmds_writes)
        /\ MmdsRecordWrittenOnce(snap[1].pci_state, save_obs.pci_mmds_writes)

\* A save that visited two network devices with an MMDS namespace, "b" first.
C8_Witness ==
    /\ save_obs.completed
    /\ save_obs.mmio_mmds_writes = << "b" >>
    /\ Len(snap[1].mmio_state.net_devices) = 2
    /\ \A i \in 1..2 : snap[1].mmio_state.net_devices[i].device_state.mmds_ns

VhostUserBlockSkipped(devs, section) ==
    \A k \in DOMAIN devs :
        LET d == devs[k].device IN
        IF d.type = TYPE_BLOCK /\ d.vhost
        THEN /\ d.ops = << >>
             /\ \A st \in SeqSet(section.block_devices) : st.device_id # d.id
        ELSE \E st \in SeqSet(SectionList(section, d.type)) :
                 st.device_id = d.id

\* C9: save completes; a vhost-user-backed block device receives neither
\* prepare_save nor save and has no entry in block_devices, and every other
\* device has its entry.
C9_VhostUserBlockSkipped ==
    phase \in {"saved", "restored"} =>
        /\ save_obs.completed
        /\ IsSome(snap)
        /\ VhostUserBlockSkipped(mmio_devices, snap[1].mmio_state)
        /\ VhostUserBlockSkipped(pci_devices, snap[1].pci_state)

\* A completed save of a PCI registry holding a vhost-user block device and
\* another device, with the warning logged.
C9_Witness ==
    /\ save_obs.completed
    /\ save_obs.warnings = 1
    /\ Cardinality(DOMAIN pci_devices) = 2
    /\ \E k \in DOMAIN pci_devices : pci_devices[k].device.vhost

VsockSavedAfterReset(devs, section) ==
    \A k \in DOMAIN devs :
        LET d == devs[k].device IN
        d.type = TYPE_VSOCK =>
            /\ d.ops = IF d.activated
                       THEN << "send_transport_reset_event", "backend_save",
                               "save" >>
                       ELSE << "backend_save", "save" >>
            /\ IsSome(section.vsock_device)
            /\ section.vsock_device[1].device_id = d.id

\* C10: save sends the transport reset event to an activated vsock device
\* before it reads the backend and frontend state, sends none to a device
\* that is not activated, and records the vsock entry whether or not the
\* event could be sent.
C10_VsockResetBeforeStateRead ==
    save_obs.completed =>
        /\ VsockSavedAfterReset(mmio_devices, snap[1].mmio_state)
        /\ VsockSavedAfterReset(pci_devices, snap[1].pci_state)

\* A save whose reset event to an activated vsock device failed: the error is
\* logged and the entry is in the snapshot.
C10_Witness ==
    /\ save_obs.completed
    /\ save_obs.errors = 1
    /\ IsSome(snap[1].mmio_state.vsock_device)
    /\ snap[1].mmio_state.vsock_device[1].device_state.activated

\* Position of the first occurrence of call op in the calls a device got
\* (0 when it got none).
FirstCall(ops, op) ==
    IF \E i \in 1..Len(ops) : ops[i] = op
    THEN CHOOSE i \in 1..Len(ops) :
             ops[i] = op /\ \A j \in 1..(i - 1) : ops[j] # op
    ELSE 0

PreparedOnceBeforeSave(devs) ==
    \A k \in DOMAIN devs :
        LET d == devs[k].device IN
        IF d.type = TYPE_NET \/ (d.type = TYPE_BLOCK /\ ~d.vhost)
        THEN /\ Count(d.ops, "prepare_save") = 1
             /\ Count(d.ops, "save") = 1
             /\ FirstCall(d.ops, "prepare_save") < FirstCall(d.ops, "save")
        ELSE Count(d.ops, "prepare_save") = 0

\* C11: save calls prepare_save exactly once on every network device and
\* every block device that is not vhost-user-backed, before the one call that
\* reads the device's state; no other device gets a prepare_save.
C11_PrepareOnceBeforeSave ==
    save_obs.completed =>
        /\ PreparedOnceBeforeSave(mmio_devices)
        /\ PreparedOnceBeforeSave(pci_devices)

\* A completed save of a PCI registry holding a block device that is not
\* vhost-user-backed and a balloon.
C11_Witness ==
    /\ save_obs.completed
    /\ << TYPE_BALLOON, TYPE_BALLOON >> \in DOMAIN pci_devices
    /\ << TYPE_BLOCK, "a" >> \in DOMAIN pci_devices
    /\ ~pci_devices[<< TYPE_BLOCK, "a" >>].device.vhost

\* What the MMIO device manager has registered: the MMIO slots on the bus.
MmioSlots(bus) == { e \in bus : e.class = "mmio32" }

\* The call just made was a lookup that returned a handle from registry reg.
LookupReturnedFrom(c, reg) ==
    /\ c.op \in {"get_virtio_device", "with_virtio_device_with_id"}
    /\ IsSome(c.found)
    /\ c.found[1].from = reg

\* C12 as stated: once enable_pci has succeeded no operation adds a device to
\* the MMIO registry, and no lookup returns a device held in it.
C12_NoMmioDeviceAfterEnablePci ==
    [][ pci_segment =>
          /\ DOMAIN mmio_devices' \subseteq DOMAIN mmio_devices
          /\ MmioSlots(mmio_bus') \subseteq MmioSlots(mmio_bus)
          /\ ~LookupReturnedFrom(call', "mmio") ]_vars

\* C12 amended: once enable_pci has succeeded, attach_virtio_device adds
\* nothing to the MMIO registry and no lookup returns a device held in it
\* (attach_mmio_virtio_device and attach_boot_timer_device still register
\* with the MMIO device manager).
C12_AttachAndLookupLeaveMmioAlone ==
    [][ pci_segment =>
          /\ attach_virtio_device =>
               /\ mmio_devices' = mmio_devices
               /\ MmioSlots(mmio_bus') = MmioSlots(mmio_bus)
          /\ ~LookupReturnedFrom(call', "mmio") ]_vars

\* In PCI mode, a key held by both registries has just been looked up and
\* the PCI device returned.
C12_Witness ==
    /\ pci_segment
    /\ LookupReturnedFrom(call, "pci")
    /\ << call.type, call.id >> \in DOMAIN mmio_devices
    /\ << call.type, call.id >> \in DOMAIN pci_devices

C14_LookupAnswersFromActiveRegistry ==
    call.op = "get_virtio_device" =>
        LET k == << call.type, call.id >>
            devs == IF pci_segment THEN pci_devices ELSE mmio_devices
            reg == IF pci_segment THEN "pci" ELSE "mmio"
        IN /\ call.status = "ok"
           /\ phase = "boot"
           /\ call.found = IF k \in DOMAIN devs
                           THEN Some([from |-> reg, device |-> devs[k].device])
                           ELSE None

\* In PCI mode, a key that only the MMIO registry holds has just been looked
\* up, and None returned.
C14_Witness ==
    /\ call.op = "get_virtio_device"
    /\ pci_segment
    /\ << call.type, call.id >> \in DOMAIN mmio_devices
    /\ << call.type, call.id >> \notin DOMAIN pci_devices
    /\ DOMAIN pci_devices # {}
    /\ call.found = None

\* C15: with_virtio_device_with_id returns DeviceNotFound exactly when the
\* lookup finds no device; InvalidDeviceType, without running the closure,
\* when the device found is not of the kind asked for; InternalDeviceError
\* when the closure ran once and failed; Ok when it ran once and succeeded.
C15_DispatchResult ==
    call.op = "with_virtio_device_with_id" =>
        LET k == << call.type, call.id >>
            devs == IF pci_segment THEN pci_devices ELSE mmio_devices
            present == k \in DOMAIN devs
            of_kind == present /\ devs[k].device.type = call.kind
        IN /\ (call.status = "DeviceNotFound") <=> ~present
           /\ (call.status = "InvalidDeviceType") <=> (present /\ ~of_kind)
           /\ (call.status = "InternalDeviceError") <=> (of_kind /\ ~call.f_ok)
           /\ (call.status = "ok") <=> (of_kind /\ call.f_ok)
           /\ call.ran = IF of_kind THEN 1 ELSE 0

\* A closure that fails has just been run on a PCI network device.
C15_Witness ==
    /\ call.op = "with_virtio_device_with_id"
    /\ call.status = "InternalDeviceError"
    /\ call.ran = 1
    /\ pci_segment
    /\ call.found[1].device.type = TYPE_NET

\* The keys of the virtio device entries of a section of the snapshot.
SectionKeys(s) ==
    UNION { { << type, st.device_id >> : st \in SeqSet(SectionList(s, type)) } :
            type \in DeviceTypes }

AcpiSectionIncluded ==
    IsSome(snap[1].acpi_state.vmgenid) <=> IsSome(acpi_devices.vmgenid)

\* C16 as stated: in the snapshot save yields, the section of the inactive
\* transport is empty (PCI mode: no virtio entry in the MMIO section; MMIO
\* mode: PCI section disabled and without entries), and the ACPI section is
\* included.
C16_InactiveSectionEmpty ==
    save_obs.completed =>
        /\ pci_segment => SectionKeys(snap[1].mmio_state) = {}
        /\ ~pci_segment => snap[1].pci_state = PciDevicesState_default
        /\ AcpiSectionIncluded

\* C16 amended: save writes all three sections whatever the mode: the MMIO
\* section has an entry for every device of the MMIO registry that is not a
\* vhost-user block device (none only if that registry holds none), the PCI
\* section is disabled and without entries when there is no PCI segment and
\* otherwise enabled with the entries of the PCI registry, and the ACPI
\* section is included.
C16_SectionsFollowRegistries ==
    save_obs.completed =>
        /\ SectionKeys(snap[1].mmio_state) = SavedKeys(mmio_devices)
        /\ ~pci_segment => snap[1].pci_state = PciDevicesState_default
        /\ pci_segment =>
             /\ snap[1].pci_state.pci_enabled
             /\ SectionKeys(snap[1].pci_state) = SavedKeys(pci_devices)
        /\ AcpiSectionIncluded

\* A save in PCI mode of a device manager that holds a device in each
\* registry and a VMGenID.
C16_Witness ==
    /\ save_obs.completed
    /\ pci_segment
    /\ SectionKeys(snap[1].mmio_state) # {}
    /\ SectionKeys(snap[1].pci_state) # {}
    /\ IsSome(snap[1].acpi_state.vmgenid)

\* Position of a restore-log entry among the stages as the claim orders them:
\* legacy devices, the virtio registries, ACPI devices, serial replay.
ClaimedStage(ev) ==
    CASE ev.step = "legacy" -> 1
      [] ev.reg \in {"mmio", "pci"} -> 2
      [] ev.reg = "acpi" -> 3
      [] OTHER -> 4

\* Position of a restore-log entry among the stages as DeviceManager::restore
\* calls them: legacy devices, MMIO registry, ACPI devices and the VMGenID
\* notification, PCI registry, serial replay.
RestoreStage(ev) ==
    CASE ev.step = "legacy" -> 1
      [] ev.reg = "mmio" -> 2
      [] ev.reg = "acpi" -> 3
      [] ev.reg = "pci" -> 4
      [] OTHER -> 5

\* C17 as stated: the calls of a restore come in the order legacy devices,
\* virtio registries (MMIO and PCI), ACPI devices, serial replay; no call
\* into a virtio registry follows a call of the ACPI restore.
C17_RegistriesBeforeAcpi ==
    phase = "restored" =>
        \A i, j \in 1..Len(rst.log) :
            i < j => ClaimedStage(rst.log[i]) <= ClaimedStage(rst.log[j])

\* C17 amended: the calls of a restore come in the order legacy devices,
\* MMIO registry, ACPI devices with the VMGenID notification, PCI registry,
\* serial replay: the PCI registry is restored after the ACPI devices.
C17_RestoreStagesInCodeOrder ==
    phase = "restored" =>
        /\ \A i, j \in 1..Len(rst.log) :
              i < j => RestoreStage(rst.log[i]) < RestoreStage(rst.log[j])
                       \/ ( /\ RestoreStage(rst.log[i]) = RestoreStage(rst.log[j])
                            /\ RestoreStage(rst.log[i]) \in {2, 3, 4} )
        /\ rst.log # << >> /\ rst.log[1].step = "legacy"
        /\ RestoreOk => rst.log[Len(rst.log)].step = "serial"

\* A restore that went through all five stages: an MMIO device, the VMGenID,
\* a PCI device, between the legacy devices and the serial replay.
C17_Witness ==
    /\ RestoreOk
    /\ \E i, j, k \in 1..Len(rst.log) :
          /\ i < j /\ j < k
          /\ rst.log[i].reg = "mmio" /\ rst.log[i].step = "restore"
          /\ rst.log[j] = Ev("acpi", "acpi", "", "vmgenid")
          /\ rst.log[k].reg = "pci" /\ rst.log[k].step = "restore"

\* C18 as stated: restore rebuilds virtio devices in exactly one registry:
\* with the PCI-enabled flag set the restored MMIO registry is empty, with
\* the flag clear there is no PCI segment and no PCI device.
C18_OneRegistryRestored ==
    RestoreOk =>
        /\ rst.input.pci_state.pci_enabled =>
               Keys(rst.dm[1].mmio_devices) = {}
        /\ ~rst.input.pci_state.pci_enabled =>
               ~rst.dm[1].pci_segment /\ Keys(rst.dm[1].pci_devices) = {}

\* C18 amended: restore rebuilds the MMIO registry from the MMIO section
\* whatever the PCI-enabled flag; with the flag set it also creates the PCI
\* segment and rebuilds the PCI registry from the PCI section, and with the
\* flag clear there is no PCI segment and no PCI device whatever entries the
\* PCI section holds.
C18_MmioAlwaysPciByFlag ==
    RestoreOk =>
        /\ Keys(rst.dm[1].mmio_devices) = SectionKeys(rst.input.mmio_state)
        /\ rst.input.pci_state.pci_enabled =>
               /\ rst.dm[1].pci_segment
               /\ Keys(rst.dm[1].pci_devices) =
                      SectionKeys(rst.input.pci_state)
        /\ ~rst.input.pci_state.pci_enabled =>
               ~rst.dm[1].pci_segment /\ Keys(rst.dm[1].pci_devices) = {}

\* A restore of a document with entries in both sections and the PCI section
\* marked disabled: the MMIO devices are rebuilt, the PCI entries are not.
C18_Witness ==
    /\ RestoreOk
    /\ ~rst.input.pci_state.pci_enabled
    /\ SectionKeys(rst.input.pci_state) # {}
    /\ Keys(rst.dm[1].pci_devices) = {}
    /\ Keys(rst.dm[1].mmio_devices) # {}

\* The GSIs the ACPI platform devices hold.
AcpiGsis ==
    { acpi_devices[d][1].gsi : d \in { x \in {"vmgenid", "vmclock"} :
                                          IsSome(acpi_devices[x]) } }

\* The GSIs of the legacy pool the virtio devices hold (a PCI device holds
\* MSI-X vectors, drawn from another pool).
VirtioGsis == { mmio_devices[k].resources.gsi : k \in DOMAIN mmio_devices }

IsGuestVisible(ev) == ev.step \in {"mem_write", "irq"}

VmGenIdAttachedBefore(i) ==
    \E j \in 1..(i - 1) : rst.log[j] = Ev("acpi", "acpi", "", "vmgenid")

\* Before entry i of the restore log, the generation ID of the rebuilt device
\* has been written to guest memory (VmGenId::activate).
GenIdWrittenBefore(i) ==
    \E j \in 1..(i - 1) : rst.log[j] = Ev("acpi", "mem_write", "", "vmgenid")

C22_OneNotificationPerRestore ==
    RestoreOk =>
        /\ CountStep(rst.log, "irq") =
               IF IsSome(rst.input.acpi_state.vmgenid) THEN 1 ELSE 0
        /\ CountStep(rst.log, "notify") = CountStep(rst.log, "irq")
        /\ \A i \in 1..Len(rst.log) :
              rst.log[i].step = "irq" =>
                  /\ i > 1
                  /\ rst.log[i - 1] = Ev("acpi", "notify", "", "vmgenid")
                  /\ VmGenIdAttachedBefore(i - 1)

\* A restore of a snapshot with the VMGenID and a PCI device that raised the
\* interrupt.
C22_Witness ==
    /\ RestoreOk
    /\ IsSome(rst.input.acpi_state.vmgenid)
    /\ CountStep(rst.log, "irq") = 1
    /\ Keys(rst.dm[1].pci_devices) # {}

\* C23 as stated: when raising the generation-ID notification fails, restore
\* does not return an error and the restored topology is returned.
C23_NotifyFailureIsSwallowed ==
    (phase = "restored" /\ rst.hit /\ rst.fail_step = "notify") =>
        /\ rst.status = "ok"
        /\ IsSome(rst.dm)

\* C23 amended: when raising the generation-ID notification fails, restore
\* returns the error DevicePersistError::VmGenidUpdate at once: no interrupt
\* was raised, the PCI registry and the serial replay are not reached, and
\* no topology is returned.
C23_NotifyFailureIsReturned ==
    (phase = "restored" /\ rst.hit /\ rst.fail_step = "notify") =>
        /\ rst.status = "err"
        /\ rst.err = "VmGenidUpdate"
        /\ IsNone(rst.dm)
        /\ rst.log[Len(rst.log)] = Ev("acpi", "notify", "", "vmgenid")
        /\ CountStep(rst.log, "irq") = 0

\* A restore of a snapshot with an MMIO device and the VMGenID whose
\* notification failed.
C23_Witness ==
    /\ phase = "restored"
    /\ rst.hit
    /\ rst.fail_step = "notify"
    /\ \E i \in 1..Len(rst.log) : rst.log[i].reg = "mmio"

\* Position of the first call of a step in a log (0 if there is none).
RECURSIVE StepIndex(_, _, _)
StepIndex(log, step, i) ==
    IF i > Len(log) THEN 0
    ELSE IF log[i].step = step THEN i ELSE StepIndex(log, step, i + 1)

\* The last operation was a PCI attach / a PCI attach that returned Ok.
PciAttachCalled == call.op = "attach_pci_virtio_device"
PciAttachOk == PciAttachCalled /\ call.status = "ok"

\* C24: a PCI attach of a device with q virtqueues creates a vector group of
\* q + 1 vectors, adds the device to the PCI bus at the device number of its
\* BDF and registers its BAR on the MMIO bus as a 64-bit memory region.
C24_PciAttachVectorsBdfBar ==
    /\ \A k \in DOMAIN pci_devices :
          pci_devices[k].msix_vectors.num = NumQueues(k[1]) + 1
    /\ PciAttachOk =>
          LET k == << call.type, call.id >> IN
          /\ k \in DOMAIN pci_devices
          /\ [dev |-> pci_devices[k].pci_device_bdf, type |-> k[1],
              id |-> k[2]] \in pci_bus
          /\ \E e \in mmio_bus :
                /\ e.type = k[1] /\ e.id = k[2]
                /\ e.addr = pci_devices[k].bar_addr
                /\ e.class = "mmio64"

\* A PCI attach of a network device (two queues, three vectors) that
\* returned Ok after another device had been attached.
C24_Witness ==
    /\ PciAttachOk
    /\ call.type = TYPE_NET
    /\ pci_devices[<< call.type, call.id >>].msix_vectors.num = 3
    /\ pci_devices[<< call.type, call.id >>].pci_device_bdf > 0

\* C25: in a PCI attach the BARs are allocated before the BAR region is put
\* on the MMIO bus, which precedes the registration of the ioeventfds, and
\* the region is put at the address just allocated; in a restore the region
\* is put on the bus at the saved BAR address right before the ioeventfds of
\* the same device are registered.
C25_BarsThenBusThenIoevent ==
    /\ PciAttachCalled =>
          /\ StepIndex(call.log, "register", 1) > 0 =>
                /\ StepIndex(call.log, "bars", 1) > 0
                /\ StepIndex(call.log, "bars", 1) <
                      StepIndex(call.log, "register", 1)
          /\ StepIndex(call.log, "ioevent", 1) > 0 =>
                /\ StepIndex(call.log, "register", 1) > 0
                /\ StepIndex(call.log, "register", 1) <
                      StepIndex(call.log, "ioevent", 1)
    /\ PciAttachOk =>
          /\ StepIndex(call.log, "ioevent", 1) > 0
          /\ [class |-> "mmio64", addr |-> alloc.bar64 - 1, type |-> call.type,
              id |-> call.id] \in mmio_bus
          /\ pci_devices[<< call.type, call.id >>].bar_addr = alloc.bar64 - 1
    /\ phase = "restored" =>
          /\ \A i \in 1..Len(rst.log) :
                rst.log[i].step = "ioevent" =>
                    /\ i > 1
                    /\ rst.log[i - 1] = [rst.log[i] EXCEPT !.step = "register"]
          /\ RestoreOk =>
                \A type \in DeviceTypes :
                    \A st \in SeqSet(SectionList(rst.input.pci_state, type)) :
                        [class |-> "mmio64", addr |-> st.transport_state.bar_addr,
                         type |-> type, id |-> st.device_id] \in rst.mmio_bus

\* A PCI attach that returned Ok and went through the three steps.
C25_Witness ==
    /\ PciAttachOk
    /\ StepIndex(call.log, "bars", 1) > 0
    /\ StepIndex(call.log, "register", 1) > StepIndex(call.log, "bars", 1)
    /\ StepIndex(call.log, "ioevent", 1) > StepIndex(call.log, "register", 1)
    /\ alloc.bar64 > 1

\* C26: a PCI attach that fails in the allocation of the BARs returns the
\* resource-allocation error and leaves the PCI registry, the PCI bus and
\* the MMIO bus as they were, so a lookup of a device that was not attached
\* before still finds nothing.
C26_FailedBarAllocationLeavesNoDevice ==
    [][ ( /\ call'.op = "attach_pci_virtio_device"
          /\ call'.log # << >>
          /\ call'.log[Len(call'.log)].step = "bars" )
        => /\ call'.status = "ResourceAllocation"
           /\ pci_devices' = pci_devices
           /\ pci_bus' = pci_bus
           /\ mmio_bus' = mmio_bus
           /\ mmio_devices' = mmio_devices
           /\ \A type \in DeviceTypes : \A id \in DeviceIds(type) :
                  ( /\ call'.type = type /\ call'.id = id
                    /\ << type, id >> \notin DOMAIN pci_devices )
                  => get_virtio_device(type, id)' = None ]_vars

\* A PCI attach has just failed in the allocation of the BARs, while another
\* device is attached and the device itself is not.
C26_Witness ==
    /\ PciAttachCalled
    /\ call.status = "ResourceAllocation"
    /\ pci_devices # EmptyRegistry
    /\ << call.type, call.id >> \notin DOMAIN pci_devices
    /\ get_virtio_device(call.type, call.id) = None

\* Every device of a registry is of one of the five kinds and is filed under
\* its own type tag.
KnownKinds(devs) ==
    \A k \in DOMAIN devs :
        devs[k].device.type \in DeviceTypes /\ k[1] = devs[k].device.type

BusDevicesAreRegistered ==
    /\ \A e \in pci_bus :
          /\ << e.type, e.id >> \in DOMAIN pci_devices
          /\ pci_devices[<< e.type, e.id >>].pci_device_bdf = e.dev
    /\ \A e \in mmio_bus :
          e.class = "mmio64" =>
             /\ << e.type, e.id >> \in DOMAIN pci_devices
             /\ pci_devices[<< e.type, e.id >>].bar_addr = e.addr

\* C28: after any sequence of PCI attach operations each (device_type,
\* device_id) identifies at most one live device and every device registered
\* on a bus has its own registry entry, also when a device is attached under
\* a key that is already present.
C28_NoBusDeviceWithoutRegistryEntry ==
    phase = "boot" => BusDevicesAreRegistered

\* The locks held once event e is made with the locks in held.
AfterEvent(held, e) ==
    IF e.act = "acq" THEN held \cup { LockOf(e) } ELSE held \ { LockOf(e) }

\* The locks held after the first i events of a trace.
RECURSIVE HeldLocks(_, _)
HeldLocks(log, i) ==
    IF i = 0 THEN {} ELSE AfterEvent(HeldLocks(log, i - 1), log[i])

\* The locks of transports and devices among a set of locks.
DeviceLocks(held) == { l \in held : l.kind \in { "transport", "device" } }

\* At no point of the trace are locks of two different devices held.
OneDeviceAtATime(log) ==
    \A i \in 0..Len(log) :
       \A l1, l2 \in DeviceLocks(HeldLocks(log, i)) :
          l1.reg = l2.reg /\ l1.key = l2.key

\* No transport is locked while the lock of its device is held, and no lock
\* is taken again by the thread that holds it.
TransportLockedFirst(log) ==
    \A i \in 1..Len(log) :
       log[i].act = "acq" =>
          /\ LockOf(log[i]) \notin HeldLocks(log, i - 1)
          /\ log[i].kind = "transport" =>
                [kind |-> "device", reg |-> log[i].reg, key |-> log[i].key]
                   \notin HeldLocks(log, i - 1)

\* A thread that has made i events of trace a and holds the locks in mine
\* can make the next one while the other thread holds the locks in others.
CanStep(a, i, mine, others) ==
    /\ i < Len(a)
    /\ \/ a[i + 1].act = "rel"
       \/ LockOf(a[i + 1]) \notin (mine \cup others)

\* With S the positions << i, j, held by a, held by b >> that two threads
\* running traces a and b can be in after i + j events: some interleaving
\* goes on from S to a position where a thread is left that can never make
\* its next event.
RECURSIVE DeadlockFrom(_, _, _)
DeadlockFrom(a, b, S) ==
    IF S = {} THEN FALSE
    ELSE LET StepA == { p \in S : CanStep(a, p[1], p[3], p[4]) }
             StepB == { p \in S : CanStep(b, p[2], p[4], p[3]) }
         IN \/ \E p \in S \ (StepA \cup StepB) :
                  p[1] < Len(a) \/ p[2] < Len(b)
            \/ DeadlockFrom(a, b,
                  { << p[1] + 1, p[2], AfterEvent(p[3], a[p[1] + 1]), p[4] >> :
                       p \in StepA }
                  \cup
                  { << p[1], p[2] + 1, p[3], AfterEvent(p[4], b[p[2] + 1]) >> :
                       p \in StepB })

\* Some interleaving of a and b ends in a deadlock.
CanDeadlock(a, b) == DeadlockFrom(a, b, { << 0, 0, {}, {} >> })

\* C29: no operation of the device manager holds the locks of two different
\* devices at once; a transport's lock and its device's lock are only held
\* together with the transport's taken first; and no interleaving of an
\* operation with an access of the guest to a device on a bus ends in a
\* deadlock.
C29_LocksOfOneDeviceTransportFirst ==
    call.kind = "locks" =>
       /\ OneDeviceAtATime(call.log)
       /\ TransportLockedFirst(call.log)
       /\ \A g \in DOMAIN mmio_devices :
             ~CanDeadlock(call.log, DispatchLocks("mmio", g))
       /\ \A g \in DOMAIN pci_devices :
             ~CanDeadlock(call.log, DispatchLocks("pci", g))

\* C29 witness: a kick went over two devices and held, for each, the lock
\* of the transport together with the lock of its device.
C29_Witness ==
    /\ call.kind = "locks"
    /\ call.op = "kick_virtio_devices"
    /\ Len(call.log) = 8
    /\ call.log[1].key # call.log[5].key
    /\ \E i \in 1..Len(call.log) :
          { l.kind : l \in HeldLocks(call.log, i) } = { "transport", "device" }

\* The buffer a read of the data port fills after the guest wrote command
\* wcmd to the status port, v to the data port and command rcmd to the
\* status port of device d; fail is the write to kbd_interrupt_evt that
\* fails in each call.
ReadBack(d, wcmd, rcmd, v, fail) ==
    LET a == bus_write(d, OFS_STATUS, << wcmd >>, fail, TRUE).d
        b == bus_write(a, OFS_DATA, << v >>, fail, TRUE).d
        c == bus_write(b, OFS_STATUS, << rcmd >>, fail, TRUE).d
    IN bus_read(c, OFS_DATA, << 1 >>, fail).e.data

\* The guest has just read the status port.  The read changes nothing in
\* the device, so every state the device reaches is also reached with this
\* call as the last one.
StatusWasRead ==
    io.op = "bus_read" /\ io.offset = OFS_STATUS /\ io.read_count = 1

\* C30: from every state of the device and for every byte v, writing
\* CMD_WRITE_CTR and v and then CMD_READ_CTR and reading the data port
\* returns v, and so do CMD_WRITE_OUTP and CMD_READ_OUTP.
C30_WrittenRegisterReadsBack ==
    StatusWasRead =>
       \A v \in Byte, fail \in 0..1 :
          /\ ReadBack(i8042, CMD_WRITE_CTR, CMD_READ_CTR, v, fail) = << v >>
          /\ ReadBack(i8042, CMD_WRITE_OUTP, CMD_READ_OUTP, v, fail) = << v >>

\* C30 witness: the guest wrote 0x52 to both registers and read it back
\* from the data port (slot 0 of the buffer holds it, head and tail are one
\* past it) after the buffer had held the bytes of a ctrl-alt-del, which the
\* commands flushed; it has then read the status port.
C30_Witness ==
    /\ StatusWasRead
    /\ i8042.control = 82
    /\ i8042.outp = 82
    /\ i8042.buf[0] = 82
    /\ i8042.buf[1] = KEY_ALT
    /\ i8042.bhead = 1
    /\ i8042.btail = 1

\* The bytes the buffer of device d holds, oldest first.
BufContent(d) ==
    [k \in 1..buf_len(d) |-> d.buf[(d.bhead + k - 1) % BUF_SIZE]]

\* C31: the buffer always holds between 0 and BUF_SIZE bytes; a push on a
\* full buffer returns InternalBufferFull and leaves the bytes as they are,
\* any other push appends its byte; a pop on an empty buffer returns None,
\* any other pop returns and removes the oldest byte, also when the index
\* of the ring has wrapped.
C31_BufferIsBoundedFifo ==
    [][ /\ buf_len(i8042') \in 0..BUF_SIZE
        /\ io'.op = "push_byte" =>
              IF buf_len(i8042) = BUF_SIZE
              THEN /\ io'.res = "InternalBufferFull"
                   /\ BufContent(i8042)' = BufContent(i8042)
              ELSE /\ io'.res = "Ok"
                   /\ BufContent(i8042)' =
                         Append(BufContent(i8042), io'.data[1])
        /\ io'.op = "pop_byte" =>
              IF buf_len(i8042) = 0
              THEN /\ io'.data = << >>
                   /\ BufContent(i8042)' = BufContent(i8042)
              ELSE /\ io'.data = << Head(BufContent(i8042)) >>
                   /\ BufContent(i8042)' = Tail(BufContent(i8042)) ]_vars

\* C31 witness: the seventeenth byte pushed, which went to slot 0 of the
\* ring after the tail index wrapped, was popped after the sixteen before it
\* while the eighteenth is still in the buffer.
C31_Witness ==
    /\ io.op = "pop_byte"
    /\ io.data = << BUF_SIZE + 1 >>
    /\ i8042.bhead = BUF_SIZE + 1
    /\ i8042.btail = BUF_SIZE + 2
    /\ i8042.buf[0] = BUF_SIZE + 1

\* C32: in every state of the device, trigger_ctrl_alt_del with fewer than 4
\* free bytes and trigger_key of a two-byte key with fewer than 2 return
\* InternalBufferFull and change nothing in the device; and a
\* trigger_ctrl_alt_del that returns Ok has appended 0x14, 0x11, 0xE0, 0x71.
C32_KeysNeedRoomForAllBytes ==
    /\ \A fail \in 0..3 :
          LET r == trigger_ctrl_alt_del(Dev(i8042, NoIo), fail) IN
          /\ BUF_SIZE - buf_len(i8042) < 4 =>
                r.e.res = "InternalBufferFull" /\ r.d = i8042
          /\ r.e.res = "Ok" =>
                BufContent(r.d) = BufContent(i8042) \o << 20, 17, 224, 113 >>
    /\ \A key \in ExtendedKeys, fail \in 0..1 :
          LET r == trigger_key(Dev(i8042, NoIo), key, fail) IN
          BUF_SIZE - buf_len(i8042) < 2 =>
             r.e.res = "InternalBufferFull" /\ r.d = i8042

\* C32 witness: ctrl-alt-del was refused on a buffer of 13 bytes whose tail
\* index has wrapped, after a ctrl-alt-del had put its four bytes there.
C32_Witness ==
    /\ io.op = "trigger_ctrl_alt_del"
    /\ io.res = "InternalBufferFull"
    /\ buf_len(i8042) = BUF_SIZE - 3
    /\ i8042.btail > BUF_SIZE
    /\ \E k \in 1..(buf_len(i8042) - 3) :
          SubSeq(BufContent(i8042), k, k + 3) = << 20, 17, 224, 113 >>

\* The offsets and buffers of the accesses looked at: every offset up to 8
\* and buffers of no, one and two bytes, with the commands among the bytes.
FrameOffsets == 0..8
FrameBuffers ==
    { << >>, << 1 >>, << 1, 2 >>, << CMD_RESET_CPU >>, << CMD_WRITE_CTR >>,
      << CMD_READ_CTR >>, << CMD_RESET_CPU, CMD_RESET_CPU >>,
      << CMD_WRITE_OUTP, 82 >> }

\* The access is not byte-wide or goes to no port of the device.
MissedAccess(offset, data) ==
    Len(data) # 1 \/ offset \notin { OFS_DATA, OFS_STATUS }

\* C33: in every state of the device, a bus_read or bus_write that is not
\* byte-wide or goes to no port leaves every field of the device and the
\* caller's buffer as they are, raises no event and changes no counter but
\* missed_read_count (missed_write_count), which it increments by one.
C33_MissedAccessOnlyCounts ==
    StatusWasRead =>
       \A offset \in FrameOffsets, data \in FrameBuffers, fail \in 0..1 :
          MissedAccess(offset, data) =>
             /\ bus_read(i8042, offset, data, fail) =
                   Dev(i8042, [NoIo EXCEPT !.op = "bus_read",
                                           !.offset = offset, !.data = data,
                                           !.missed_read_count = 1])
             /\ \A reset_ok \in BOOLEAN :
                   bus_write(i8042, offset, data, fail, reset_ok) =
                      Dev(i8042, [NoIo EXCEPT !.op = "bus_write",
                                              !.offset = offset, !.data = data,
                                              !.missed_write_count = 1])

\* C33 witness: the guest wrote CMD_RESET_CPU to offset 1 while the device
\* waited for the payload of CMD_WRITE_OUTP with key bytes in its buffer; the
\* write was counted as missed and nothing else.
C33_Witness ==
    /\ io = [NoIo EXCEPT !.op = "bus_write", !.offset = 1,
                         !.data = << CMD_RESET_CPU >>,
                         !.missed_write_count = 1]
    /\ HasBit(i8042.status, SB_I8042_CMD_DATA)
    /\ i8042.cmd = CMD_WRITE_OUTP
    /\ buf_len(i8042) = 4


---------------------------------------------------------------------------
\* Claim C34.

\* The steps of `log` made for the device k of registry reg, in order.
DeviceSteps(log, reg, k) ==
    LET mine == SelectSeq(log, LAMBDA e :
                    e.reg = reg /\ e.type = k[1] /\ e.id = k[2])
    IN [i \in 1..Len(mine) |-> mine[i].step]

ActivationStep(activated) == IF activated THEN << "activate" >> ELSE << >>

\* The steps of one device of the MMIO registry: the kind-specific restore,
\* update_from_restored_device, MmioTransport::restore, register_mmio_virtio,
\* activate if recorded, add_subscriber.
MmioRestoreSteps(activated) ==
    << "restore", "update", "transport", "register" >>
       \o ActivationStep(activated) \o << "subscribe" >>

\* The steps of one device of the PCI registry, the activation after the
\* three bus registrations (the PCI bus, the BAR on the MMIO bus and the
\* notification ioeventfds).
PciRestoreSteps_activating_after_registration(activated) ==
    << "restore", "update", "transport", "pci_bus", "register", "ioevent" >>
       \o ActivationStep(activated) \o << "subscribe" >>

\* The steps of one device of the PCI registry: restore_pci_device makes no
\* call between register_notification_ioevent and add_subscriber, and the
\* activation is replayed while the transport is rebuilt, before the device
\* is added to any bus.
PciRestoreSteps(activated) ==
    << "restore", "update", "transport" >> \o ActivationStep(activated)
       \o << "pci_bus", "register", "ioevent", "subscribe" >>

\* Every device of the restored document went through the given steps, in
\* that order and each once.
RestoreStepsAre(MmioSteps(_), PciSteps(_)) ==
    \A type \in DeviceTypes :
       /\ \A st \in SeqSet(SectionList(rst.input.mmio_state, type)) :
             DeviceSteps(rst.log, "mmio", << type, st.device_id >>) =
                MmioSteps(st.device_state.activated)
       /\ \A st \in SeqSet(SectionList(rst.input.pci_state, type)) :
             rst.input.pci_state.pci_enabled =>
                DeviceSteps(rst.log, "pci", << type, st.device_id >>) =
                   PciSteps(st.transport_state.device_activated)

\* C34 as stated: in a successful restore every device of either registry
\* goes through kind-specific restore, registration in the resource table,
\* transport reconstruction, bus registration, activation replay if recorded
\* and event-loop subscription in that order, each once.
C34_Original ==
    RestoreOk =>
       RestoreStepsAre(MmioRestoreSteps,
                       PciRestoreSteps_activating_after_registration)

\* C34 (amended): in a successful restore every device of the MMIO registry
\* goes through kind-specific restore, registration in the resource table,
\* transport reconstruction, bus registration, activation replay if recorded
\* and event-loop subscription in that order, each once; a device of the PCI
\* registry goes through the same steps with the activation replay between
\* the transport reconstruction and the bus registrations; and every restored
\* device is subscribed exactly once.
C34_RestoreStepsInCodeOrder ==
    RestoreOk =>
       /\ RestoreStepsAre(MmioRestoreSteps, PciRestoreSteps)
       /\ \A k \in DOMAIN rst.dm[1].mmio_devices :
             Count(rst.log, Ev("mmio", "subscribe", k[1], k[2])) = 1
       /\ \A k \in DOMAIN rst.dm[1].pci_devices :
             Count(rst.log, Ev("pci", "subscribe", k[1], k[2])) = 1

\* C34 witness: a successful restore of a PCI device saved activated and of
\* one saved inactive.
C34_Witness ==
    /\ RestoreOk
    /\ \E k1, k2 \in DOMAIN rst.dm[1].pci_devices :
          /\ Count(rst.log, Ev("pci", "activate", k1[1], k1[2])) = 1
          /\ Count(rst.log, Ev("pci", "activate", k2[1], k2[2])) = 0
          /\ Count(rst.log, Ev("pci", "subscribe", k2[1], k2[2])) = 1

---------------------------------------------------------------------------
\* The VMGenID device with its generation ID (devices/acpi/vmgenid.rs).  The
\* device-manager model above leaves the gen_id field out; here the device is
\* the record [gen_id, guest_address, gsi] and `call` holds
\*   dev       the device built by from_parts
\*   state     Option<VMGenIDState>: what save returned
\*   restored  the devices built by the restores of that state, in order

\* The values the random source can fill the 16 bytes with.
GenIds == 0..3
\* The GSIs and guest addresses the device is built with.
GenIdGsis == { 0, 1 }
GenIdAddrs == { 0, 1 }

\* Fault seeded for C35: from_parts with a generation ID that is not drawn.
VmGenId_from_parts_with_fixed_gen_id(guest_address, gsi, genid) == [gen_id |-> 0, guest_address |-> guest_address, gsi |-> gsi]

\* VmGenId::from_parts; genid is what make_genid draws from the random
\* source.
VmGenId_from_parts(guest_address, gsi, genid) ==
    [gen_id |-> genid, guest_address |-> guest_address, gsi |-> gsi]

\* <VmGenId as Persist>::restore.
VmGenId_restore_from_parts(state, genid) ==
    VmGenId_from_parts(state.addr, state.gsi, genid)

NoVmGenIdCall ==
    [op |-> "", dev |-> None, state |-> None, restored |-> << >>]

VmGenIdCall == IF call.op = "" THEN NoVmGenIdCall ELSE call

\* The VMM builds the device.
call_VmGenId_from_parts ==
    /\ \E guest_address \in GenIdAddrs, gsi \in GenIdGsis, genid \in GenIds :
          call' = [NoVmGenIdCall EXCEPT
                      !.op = "from_parts",
                      !.dev = Some(VmGenId_from_parts(guest_address, gsi,
                                                      genid))]
    /\ UNCHANGED << phase, alloc, mmio_bus, pci_bus, pci_segment, mmio_devices,
                    pci_devices, acpi_devices, mmds, snap, save_obs, rst,
                    i8042, io >>

\* The VMM saves the device.
call_VmGenId_save ==
    /\ IsSome(VmGenIdCall.dev)
    /\ call' = [call EXCEPT !.op = "save",
                            !.state = Some(VmGenId_save(call.dev[1])),
                            !.restored = << >>]
    /\ UNCHANGED << phase, alloc, mmio_bus, pci_bus, pci_segment, mmio_devices,
                    pci_devices, acpi_devices, mmds, snap, save_obs, rst,
                    i8042, io >>

\* The VMM restores the saved state, a first and a second time.
call_VmGenId_restore ==
    /\ IsSome(VmGenIdCall.state)
    /\ Len(call.restored) < 2
    /\ \E genid \in GenIds :
          call' = [call EXCEPT
                      !.op = "restore",
                      !.restored = Append(@,
                          VmGenId_restore_from_parts(call.state[1], genid))]
    /\ UNCHANGED << phase, alloc, mmio_bus, pci_bus, pci_segment, mmio_devices,
                    pci_devices, acpi_devices, mmds, snap, save_obs, rst,
                    i8042, io >>

NextVmGenId ==
    \/ call_VmGenId_from_parts
    \/ call_VmGenId_save
    \/ call_VmGenId_restore

SpecVmGenId == Init /\ [][NextVmGenId]_vars

\* Claim C35.

\* Every restore of the saved state gave a device with the GSI and the guest
\* address of the saved device, and the saved state is the pair of them.
SaveRestoreKeepsGsiAndAddress ==
    /\ call.state = Some([gsi |-> call.dev[1].gsi,
                          addr |-> call.dev[1].guest_address])
    /\ \A i \in 1..Len(call.restored) :
          /\ call.restored[i].gsi = call.dev[1].gsi
          /\ call.restored[i].guest_address = call.dev[1].guest_address

\* A restore takes its generation ID from the random source and nothing else:
\* whatever the generation ID of the saved device, the restored device holds
\* the value drawn.
RestoreDrawsGenId ==
    \A saved, drawn \in GenIds :
       VmGenId_restore_from_parts(
          VmGenId_save([call.dev[1] EXCEPT !.gen_id = saved]), drawn).gen_id
       = drawn

---------------------------------------------------------------------------
\* The interrupt dispatcher of the ACPI devices (device_manager/acpi.rs).

\* `gsi as u8`.
AsU8(gsi) == gsi % 256

\* Fault seeded for C36: the handler comparing the line with the devices'
\* positions in the resource template instead of their GSIs.
EvtNotifies_by_position(vmgenid_gsi, vmclock_gsi, arg0) == (IF arg0 = 0 THEN { "VGEN" } ELSE { }) \cup (IF arg0 = 1 THEN { "VCLK" } ELSE { })

\* The _EVT method of the GED device built by append_aml_bytes: the devices
\* it notifies when the guest runs it for the line arg0.
EvtNotifies(vmgenid_gsi, vmclock_gsi, arg0) ==
    (IF arg0 = AsU8(vmgenid_gsi) THEN { "VGEN" } ELSE { })
       \cup (IF arg0 = AsU8(vmclock_gsi) THEN { "VCLK" } ELSE { })

\* The boot of a microVM with both ACPI devices, its snapshot and the
\* restore of it.
NextAcpi ==
    \/ attach_vmgenid_device
    \/ attach_vmclock_device
    \/ attach_virtio_device
    \/ save
    \/ restore

SpecAcpi == Init /\ [][NextAcpi]_vars

\* Claim C36.

\* The lines the guest can run the handler for.
EvtLines == 0..300

\* The GSIs of the ACPI devices of the running and of the restored manager.
ReachableAcpiGsis ==
    AcpiGsis \cup
       (IF RestoreOk /\ IsSome(rst.dm[1].acpi_devices.vmgenid)
        THEN { rst.dm[1].acpi_devices.vmgenid[1].gsi } ELSE { })

---------------------------------------------------------------------------
\* Claim C37.

\* The device waits for the payload byte of a two-step command.
AwaitsPayload(d) == HasBit(d.status, SB_I8042_CMD_DATA)

TwoStepCommands == { CMD_WRITE_CTR, CMD_WRITE_OUTP }

\* C37: whenever the device waits for a payload byte the stored command is
\* CMD_WRITE_CTR or CMD_WRITE_OUTP; the device starts to wait only in a
\* one-byte write of one of these two commands to the status port; it stops
\* waiting only in a one-byte write to the data port, and the first such
\* write ends the wait, stores its byte in the control register (stored
\* command CMD_WRITE_CTR) or in the output port (CMD_WRITE_OUTP), leaves the
\* other register and the buffer as they are (no ACK byte) and raises no
\* interrupt.
C37_PayloadFlagFollowsTwoStepCommand ==
    [][ /\ AwaitsPayload(i8042) => i8042.cmd \in TwoStepCommands
        /\ AwaitsPayload(i8042') => i8042'.cmd \in TwoStepCommands
        /\ (~AwaitsPayload(i8042) /\ AwaitsPayload(i8042')) =>
              /\ io'.op = "bus_write"
              /\ io'.offset = OFS_STATUS
              /\ io'.data \in { << c >> : c \in TwoStepCommands }
              /\ i8042'.cmd = io'.data[1]
        /\ (AwaitsPayload(i8042) /\ ~AwaitsPayload(i8042')) =>
              /\ io'.op = "bus_write"
              /\ io'.offset = OFS_DATA
              /\ Len(io'.data) = 1
        /\ ( /\ AwaitsPayload(i8042)
             /\ io'.op = "bus_write" /\ io'.offset = OFS_DATA
             /\ Len(io'.data) = 1 ) =>
              /\ ~AwaitsPayload(i8042')
              /\ i8042'.control = IF i8042.cmd = CMD_WRITE_CTR
                                  THEN io'.data[1] ELSE i8042.control
              /\ i8042'.outp = IF i8042.cmd = CMD_WRITE_OUTP
                               THEN io'.data[1] ELSE i8042.outp
              /\ BufContent(i8042)' = BufContent(i8042)
              /\ i8042'.buf = i8042.buf
              /\ io'.evt_writes = 0
              /\ io'.write_count = 1
      ]_vars

\* C37 witness: the guest has written CMD_WRITE_OUTP while the buffer held
\* the four bytes of a ctrl-alt-del, and then the payload 0x52: the output
\* port holds it, the device no longer waits, and the buffer still holds the
\* four key bytes and no ACK.
C37_Witness ==
    /\ io.op = "bus_write" /\ io.offset = OFS_DATA /\ io.data = << 82 >>
    /\ ~AwaitsPayload(i8042)
    /\ i8042.cmd = CMD_WRITE_OUTP
    /\ i8042.outp = 82
    /\ buf_len(i8042) = 4
    /\ \A k \in 1..4 : BufContent(i8042)[k] # KBD_ACK


---------------------------------------------------------------------------
\* The i8042 under the guest and the VMM together: port reads and writes,
\* keys and ctrl-alt-del in any order, while the index of the ring is short.

\* trigger_key is called while the ring has not advanced far.
call_trigger_key_on_short_ring ==
    /\ i8042.btail + 2 <= MaxBtail
    /\ call_trigger_key

NextI8042All ==
    \/ call_bus_read
    \/ call_bus_write
    \/ call_trigger_key_on_short_ring
    \/ call_trigger_ctrl_alt_del

SpecI8042All == Init /\ [][NextI8042All]_vars

\* Claim C38.

\* The output-data bit of device d is set exactly when its buffer holds a
\* byte.
DataBitTellsBuffer(d) ==
    HasBit(d.status, SB_OUT_DATA_AVAIL) <=> buf_len(d) > 0

\* Device d after n further calls of trigger_ctrl_alt_del (a call that finds
\* less than four bytes of room changes nothing).
RECURSIVE AfterCtrlAltDels(_, _)
AfterCtrlAltDels(d, n) ==
    IF n = 0 THEN d
    ELSE AfterCtrlAltDels(trigger_ctrl_alt_del(Dev(d, NoIo), 0).d, n - 1)

\* The bit tells the buffer in d and after each of n reads of the data port.
RECURSIVE DataBitTellsBufferWhileRead(_, _)
DataBitTellsBufferWhileRead(d, n) ==
    /\ DataBitTellsBuffer(d)
    /\ n > 0 =>
          DataBitTellsBufferWhileRead(bus_read(d, OFS_DATA, << 0 >>, 0).d,
                                      n - 1)

\* C38: in every state the device reaches through bus_read, bus_write,
\* trigger_key and trigger_ctrl_alt_del, SB_OUT_DATA_AVAIL is set if and only
\* if the buffer is not empty; and from each such state this stays so while
\* ctrl-alt-dels fill the buffer, a key of one or two bytes arrives on the
\* buffer filled that far (also when it is full or has one byte of room), and
\* the guest reads the data port until the buffer is empty and once more.
C38_DataBitIffBufferNonEmpty ==
    /\ DataBitTellsBuffer(i8042)
    /\ StatusWasRead =>
          \A n \in 0..4, key \in ScanCodes, fail \in 0..1 :
             DataBitTellsBufferWhileRead(
                trigger_key(Dev(AfterCtrlAltDels(i8042, n),
                                [NoIo EXCEPT !.op = "trigger_key",
                                             !.key = key]),
                            key, fail).d,
                BUF_SIZE + 1)

\* C38 witness: the guest has disabled the keyboard interrupt, two keys of
\* two bytes have arrived, the guest has read the four bytes from the data
\* port, the last read left the buffer empty and the bit clear, and the guest
\* has read the status port; three ctrl-alt-dels and two keys fill the
\* buffer from here, with the bit set.
C38_Witness ==
    /\ StatusWasRead
    /\ i8042.bhead = 4 /\ i8042.btail = 4
    /\ ~HasBit(i8042.status, SB_OUT_DATA_AVAIL)
    /\ i8042.buf[0] = 224 /\ i8042.buf[2] = 224
    /\ i8042.control = 82
    /\ LET f == trigger_key(Dev(AfterCtrlAltDels(i8042, 3), NoIo),
                            KEY_DEL, 0).d
       IN /\ buf_len(f) = 14
          /\ HasBit(f.status, SB_OUT_DATA_AVAIL)
          /\ buf_len(trigger_key(Dev(f, NoIo), KEY_DEL, 0).d) = BUF_SIZE

---------------------------------------------------------------------------
\* Claim C39.

\* The call that failed in the PCI attach that has just returned an error
\* ("" if the last operation was none).
FailedAttachStep(c) ==
    IF c.op = "attach_pci_virtio_device" /\ c.status # "ok" /\ c.log # << >>
    THEN c.log[Len(c.log)].step ELSE ""

\* The calls of the attach made before the device is put in the registry,
\* and those made after.
StepsBeforeInsert == { "bdf", "msix", "transport", "bars", "pci_bus" }
StepsAfterInsert == { "register", "ioevent" }

\* C39 as stated: after a PCI attach that returned an error at any of its
\* steps, get_virtio_device finds no device under the key that was being
\* attached (a key the registry did not hold before).
C39_Original ==
    [][ ( /\ FailedAttachStep(call') \in AttachFaultSteps
          /\ << call'.type, call'.id >> \notin DOMAIN pci_devices )
        => Registry_get_virtio_device(pci_devices', call'.type, call'.id)
              = None ]_vars

\* C39 (amended): after a PCI attach of a key the registry did not hold that
\* returned an error in the BDF allocation, the MSI-X group creation, the
\* transport creation, the BAR allocation or the PCI bus add,
\* get_virtio_device finds no device under the key and the registry is as it
\* was; after one that returned an error in the MMIO bus insert or the
\* ioeventfd registration, the device is in the registry and
\* get_virtio_device returns it.
C39_FailedAttachFindableAfterInsert ==
    [][ ( /\ FailedAttachStep(call') \in AttachFaultSteps
          /\ << call'.type, call'.id >> \notin DOMAIN pci_devices )
        => /\ FailedAttachStep(call') \in StepsBeforeInsert =>
                 /\ Registry_get_virtio_device(pci_devices', call'.type,
                                               call'.id) = None
                 /\ pci_devices' = pci_devices
           /\ FailedAttachStep(call') \in StepsAfterInsert =>
                 /\ IsSome(Registry_get_virtio_device(pci_devices',
                                                      call'.type, call'.id))
                 /\ Registry_get_virtio_device(pci_devices', call'.type,
                                               call'.id)[1].device.id
                       = call'.id
                 /\ DOMAIN pci_devices' =
                       DOMAIN pci_devices \cup { << call'.type, call'.id >> }
                 /\ \E e \in pci_bus' \ pci_bus :
                       e.type = call'.type /\ e.id = call'.id
      ]_vars

\* C39 witness: a PCI attach has just failed in the registration of the
\* ioeventfds; the device is on both buses and get_virtio_device finds it.
C39_Witness ==
    /\ FailedAttachStep(call) = "ioevent"
    /\ call.status = "VirtioPciDevice"
    /\ IsSome(Registry_get_virtio_device(pci_devices, call.type, call.id))
    /\ get_virtio_device(call.type, call.id) # None
    /\ Cardinality(DOMAIN pci_devices) = 1
    /\ Cardinality(pci_bus) = 1

---------------------------------------------------------------------------
\* Claim C40.

\* Every entry of a saved section holds the interrupt-status latch as it is
\* once the calls save makes on the entry's device are done.
LatchSavedAfterSideEffects(devs, section) ==
    \A type \in DeviceTypes :
       \A st \in SeqSet(SectionList(section, type)) :
          st.transport_state.interrupt_status =
             InterruptStatus(devs[<< type, st.device_id >>].device)

\* C40: save reads the transport state of each device, interrupt-status
\* latch included, after the pre-capture calls it makes on that device
\* (prepare_save of a network or block device, the transport-reset event of
\* an activated vsock), so the saved latch is the one these calls leave.
C40_TransportStateReadAfterSideEffects ==
    save_obs.completed =>
       /\ LatchSavedAfterSideEffects(mmio_devices, snap[1].mmio_state)
       /\ LatchSavedAfterSideEffects(pci_devices, snap[1].pci_state)
====
